---- MODULE Spec2Model ----
(***************************************************************************)
(* A model of the Pong WebSocket server (PongWebSocketServer): the session *)
(* registry (rooms, players, connections), the message handlers, the idle  *)
(* sweep and the 60 Hz game loop with scoring and the pickup/effect engine.*)
(*                                                                         *)
(* Conventions.                                                            *)
(*  - JavaScript null is the string "null" for sides and player ids.       *)
(*  - An absent number (undefined) is the integer Undefined.               *)
(*  - A JS Map is a sequence of entries in insertion order; set() on a key *)
(*    that is present keeps the entry's place.                             *)
(*  - Player objects are shared between this.players and room.players: the *)
(*    global map is modelled as the reference <<id, roomId>> to the entry  *)
(*     of that room's map, which holds the fields.  A record left behind   *)
(*    in another room's map is a different object and is stored there.     *)
(*  - Numbers are integers: times in milliseconds, lengths and velocities  *)
(*    in tenths of a pixel (P(n) is n pixels); a multiplication by a       *)
(*    fraction truncates toward zero (MulDiv); bounciness, time-warp and   *)
(*    visibility factors are in tenths, the playfield scale in hundredths. *)
(*  - Math.random() is a choice made by the action (\E over small sets).   *)
(***************************************************************************)
EXTENDS Integers, Sequences, FiniteSets, TLC

VARIABLES
  rooms,      \* this.rooms: roomId -> GameRoom (domain = registered rooms)
  players,    \* this.players: sequence of [id, roomId] (insertion order)
  conns,      \* per connection: [open, playerId] (the closure variable)
  now,        \* Date.now()
  advances,   \* how many times the clock has been advanced (bounded)
  events,     \* how many socket events have been handled (bounded)
  ticked,     \* the game-loop timer is not due at this clock reading
  sent,       \* messages handed to sockets by the last step, in order
  lastOp      \* the handler that ran in the last step, its arguments and,
              \* for a tick, what it did to the main room

vars == <<rooms, players, conns, now, advances, events, ticked, sent, lastOp>>

-----------------------------------------------------------------------------
(* Bounds of the model *)

NumConns == 3
NumPlayers == 3
\* the game specification: socket events handled, clock advances
MaxEvents == 3
MaxAdvances == 2
\* the registry specification: socket events handled, clock advances
RegistryEvents == 4
RegistryAdvances == 1
\* the lobby specification: players, socket events handled
LobbySize == 5
LobbyEvents == 6
StartTime == 100000

(* Program constants *)

WIN_SCORE == 1000
IDLE_TIMEOUT == 30000
GOAL_PAUSE == 2000
PADDLE_LENGTH == 140
PADDLE_THICKNESS == 12
BORDER_THICKNESS == 12
CANVAS == 800

Undefined == 0 - 1
Null == "null"

Conns == 1..NumConns
PlayerIds == {"p1", "p2", "p3", "p4", "p5", "p6"}
PlayerName(i) == <<"p1", "p2", "p3", "p4", "p5", "p6">>[i]
Players == {PlayerName(i) : i \in 1..NumPlayers}
MainRoom == "main"
RoomIds == {MainRoom, "R1"}

PlayingSides == {"left", "right", "top", "bottom"}

-----------------------------------------------------------------------------
(* Arithmetic helpers *)

Abs(n) == IF n < 0 THEN 0 - n ELSE n
Min(a, b) == IF a <= b THEN a ELSE b
Max(a, b) == IF a >= b THEN a ELSE b
Sign(n) == IF n > 0 THEN 1 ELSE IF n < 0 THEN 0 - 1 ELSE 0

\* lengths, positions and velocities are kept in tenths of a pixel
P(n) == n * 10

\* v * num / den on numbers, truncated toward zero
MulDiv(v, num, den) == Sign(v) * ((Abs(v) * num) \div den)

\* JS truthiness of a number that may be absent
Truthy(n) == n # Undefined /\ n # 0

-----------------------------------------------------------------------------
(* JS Map as a sequence of entries with an id *)

MapHas(m, k) == \E i \in 1..Len(m) : m[i].id = k
MapIdx(m, k) == CHOOSE i \in 1..Len(m) : m[i].id = k
MapGet(m, k) == m[MapIdx(m, k)]
MapSet(m, e) == IF MapHas(m, e.id) THEN [m EXCEPT ![MapIdx(m, e.id)] = e]
                ELSE Append(m, e)
MapDelete(m, k) == SelectSeq(m, LAMBDA e : e.id # k)
MapKeys(m) == {m[i].id : i \in 1..Len(m)}

-----------------------------------------------------------------------------
(* GameState *)

PickupTypes ==
  << "speed_up", "speed_down", "big_ball", "small_ball", "drunk_ball",
     "grow_paddle", "shrink_paddle", "reverse_controls", "invisible_ball",
     "freeze_opponent", "multi_ball", "super_speed", "coin_shower",
     "teleport_ball", "gravity_in_space", "super_striker", "sticky_paddles",
     "machine_gun", "dynamic_playfield", "switch_sides", "blocker",
     "time_warp", "portal_ball", "mirror_mode", "quantum_ball", "black_hole",
     "lightning_storm", "invisible_paddles", "ball_trail_mine", "paddle_swap",
     "disco_mode", "pac_man", "banana_peel", "rubber_ball", "drunk_paddles",
     "magnet_ball", "balloon_ball", "earthquake", "confetti_cannon",
     "hypno_ball", "conga_line", "arkanoid", "attractor", "repulsor",
     "great_wall" >>

AllPickupTypes == {PickupTypes[i] : i \in 1..Len(PickupTypes)}

\* the + formation: 7 horizontal bricks h_-3..h_3 and 8 vertical ones
ArkanoidBrickIds ==
  << <<"h", 0 - 3>>, <<"h", 0 - 2>>, <<"h", 0 - 1>>, <<"h", 0>>, <<"h", 1>>,
     <<"h", 2>>, <<"h", 3>>,
     <<"v", 0 - 4>>, <<"v", 0 - 3>>, <<"v", 0 - 2>>, <<"v", 0 - 1>>,
     <<"v", 1>>, <<"v", 2>>, <<"v", 3>>, <<"v", 4>> >>

\* brick geometry: centre (400,300), 40 x 20 bricks, spacing 5
BrickRect(b) ==
  IF b[1] = "h"
  THEN [x |-> P(400 + b[2] * (40 + 5) - 20), y |-> P(300 - 10),
        width |-> P(40), height |-> P(20)]
  ELSE [x |-> P(400 - 20), y |-> P(300 + b[2] * (20 + 5) - 10),
        width |-> P(40), height |-> P(20)]

\* lengths of the auxiliary arrays that only the clients read
NoArrays ==
  [ machineGunBalls |-> 0, walls |-> 0, blackHoles |-> 0,
    lightningStrikes |-> 0, pacMans |-> 0, confetti |-> 0, congaBalls |-> 0,
    coins |-> 0, mirrorBalls |-> 0, quantumPositions |-> 0, trailMines |-> 0 ]

InitialPaddle(px, py, w, h, tgt) ==
  [ x |-> P(px), y |-> P(py), width |-> P(w), height |-> P(h), speed |-> 32,
    velocity |-> 0, target |-> P(tgt), targetPos |-> 0, lastPredictedPos |-> 0 ]

\* createInitialGameState(); dySign is the outcome of Math.random() > 0.5
createInitialGameState(t, dySign) ==
  [ ball |->
      [ x |-> P(400), y |-> P(300), dx |-> P(10), dy |-> dySign * P(10),
        size |-> P(12),
        lastTouchedBy |-> Null, previousTouchedBy |-> Null,
        hasGravity |-> FALSE, isAiming |-> FALSE, aimStartTime |-> 0,
        aimX |-> 0, aimY |-> 0, aimTargetX |-> 0, aimTargetY |-> 0,
        bounciness |-> 10, lastCollisionTime |-> 0, lastTeleportTime |-> 0,
        portalX |-> 0, portalY |-> 0, flags |-> {} ],
    paddles |->
      [ left   |-> InitialPaddle(BORDER_THICKNESS * 2, 250,
                                 PADDLE_THICKNESS, PADDLE_LENGTH, 250),
        right  |-> InitialPaddle(800 - PADDLE_THICKNESS - BORDER_THICKNESS * 2,
                                 250, PADDLE_THICKNESS, PADDLE_LENGTH, 250),
        top    |-> InitialPaddle(360, BORDER_THICKNESS * 2,
                                 PADDLE_LENGTH, PADDLE_THICKNESS, 360),
        bottom |-> InitialPaddle(360,
                                 800 - PADDLE_THICKNESS - BORDER_THICKNESS * 2,
                                 PADDLE_LENGTH, PADDLE_THICKNESS, 360) ],
    score |-> [left |-> 0, right |-> 0, top |-> 0, bottom |-> 0],
    isPlaying |-> TRUE, isPaused |-> FALSE, pauseEndTime |-> 0,
    winner |-> Null, gameEnded |-> FALSE, colorIndex |-> 0,
    pickups |-> << >>, nextPickupTime |-> t + 5000, activeEffects |-> << >>,
    pickupEffect |-> [isActive |-> FALSE, startTime |-> 0, x |-> 0, y |-> 0],
    rumbleEffect |-> [isActive |-> FALSE, startTime |-> 0, intensity |-> 0],
    flags |-> {}, arrays |-> NoArrays, extraBalls |-> << >>,
    aux |->
      [ machineGunStartTime |-> 0, machineGunShooter |-> Null,
        playfieldScale |-> 100, playfieldScaleTarget |-> 100,
        playfieldScaleStart |-> 100, playfieldScaleTime |-> 0,
        timeWarpFactor |-> 10, paddleVisibility |-> 10, discoStartTime |-> 0,
        nextPaddleSwapTime |-> 0, drunkStartTime |-> 0,
        earthquakeStartTime |-> 0, hypnoStartTime |-> 0 ],
    arkanoidBricks |-> << >>, arkanoidBricksHit |-> 0 ]

\* createNewRoom(roomId)
createNewRoom(roomId, t, dySign) ==
  [ id |-> roomId, gameState |-> createInitialGameState(t, dySign),
    players |-> << >>, gamemaster |-> Null, lastUpdate |-> t,
    isActive |-> FALSE ]

\* createPersistentMainRoom(): the main room, idle until players join
createPersistentMainRoom(t, dySign) ==
  [createNewRoom(MainRoom, t, dySign) EXCEPT !.gameState.isPlaying = FALSE]

-----------------------------------------------------------------------------
(* Messages and broadcast *)

Msg(to, type, who, side, gm, count) ==
  [to |-> to, type |-> type, who |-> who, side |-> side, gm |-> gm,
   count |-> count]

RECURSIVE broadcastTo(_, _, _, _, _, _, _, _)
\* broadcastToRoom: one message per member other than excludeId whose socket
\* is open (member list m, visited from index i)
broadcastTo(m, i, open, type, who, side, count, excludeId) ==
  IF i > Len(m) THEN << >>
  ELSE (IF m[i].id # excludeId /\ m[i].ws \in open
        THEN << Msg(m[i].ws, type, who, side, FALSE, count) >>
        ELSE << >>)
       \o broadcastTo(m, i + 1, open, type, who, side, count, excludeId)

broadcastToRoom(rms, roomId, open, type, who, side, count, excludeId) ==
  IF roomId \notin DOMAIN rms THEN << >>
  ELSE broadcastTo(rms[roomId].players, 1, open, type, who, side, count,
                   excludeId)

\* ws.send on one socket: the handlers call it without a readyState test
sendTo(ws, open, m) == << m >>

-----------------------------------------------------------------------------
(* The global player map as references into the rooms *)

Registered(pl, pid) == MapHas(pl, pid)
RoomOf(pl, pid) == MapGet(pl, pid).roomId

\* this.players.get(pid): the shared Player object
PlayerRec(rms, pl, pid) == MapGet(rms[RoomOf(pl, pid)].players, pid)

\* an assignment to a field of the shared Player object
TouchLastSeen(rms, pl, pid, t) ==
  IF Registered(pl, pid)
  THEN LET r == RoomOf(pl, pid)
           i == MapIdx(rms[r].players, pid)
       IN [rms EXCEPT ![r].players[i].lastSeen = t]
  ELSE rms

-----------------------------------------------------------------------------
(* Message handlers.  A handler maps the server state                      *)
(* S = [rooms, players, sent] to the state it leaves; `open` is the set of *)
(* sockets whose readyState is OPEN and t is Date.now().                   *)

\* a side assignment that looks no further than the right side
ChooseSideRightElseLeft(m, forceSpectator) ==
  IF forceSpectator THEN "spectator"
  ELSE IF ~(\E i \in 1..Len(m) : m[i].side = "right") THEN "right"
  ELSE "left"

\* a side assignment that tries the left side first
ChooseSideLeftFirst(m, forceSpectator) ==
  LET held(sd) == \E i \in 1..Len(m) : m[i].side = sd
  IN IF forceSpectator THEN "spectator"
     ELSE IF ~held("left") THEN "left"
     ELSE IF ~held("right") THEN "right"
     ELSE IF ~held("top") THEN "top"
     ELSE IF ~held("bottom") THEN "bottom"
     ELSE "spectator"

\* the side granted by handleJoinRoom: first vacant of right, left, top, bottom
ChooseSide(m, forceSpectator) ==
  LET held(sd) == \E i \in 1..Len(m) : m[i].side = sd
  IN IF forceSpectator THEN "spectator"
     ELSE IF ~held("right") THEN "right"
     ELSE IF ~held("left") THEN "left"
     ELSE IF ~held("top") THEN "top"
     ELSE IF ~held("bottom") THEN "bottom"
     ELSE "spectator"

\* an election that forgets to test whether the room has a gamemaster
ElectOnJoinAlways(room, playerId, forceSpectator) ==
  IF ~forceSpectator
     /\ ~(\E i \in 1..Len(room.players) : room.players[i].side = "right")
  THEN playerId ELSE room.gamemaster

\* room.gamemaster after the side assignment of handleJoinRoom
ElectOnJoin(room, playerId, forceSpectator) ==
  IF ~forceSpectator
     /\ ~(\E i \in 1..Len(room.players) : room.players[i].side = "right")
     /\ room.gamemaster = Null
  THEN playerId ELSE room.gamemaster

\* a fresh game that keeps the scores of the last one
FreshGameKeepsScore(gs, sx, sy) ==
  [gs EXCEPT !.winner = Null, !.gameEnded = FALSE, !.isPlaying = TRUE,
             !.isPaused = FALSE, !.pauseEndTime = 0,
             !.ball.x = P(400), !.ball.y = P(300),
             !.ball.dx = sx * P(3), !.ball.dy = sy * P(3)]

\* a fresh game that forgets to clear the end of the last one
FreshGameStillEnded(gs, sx, sy) ==
  [gs EXCEPT !.score = [left |-> 0, right |-> 0, top |-> 0, bottom |-> 0],
             !.isPaused = FALSE, !.pauseEndTime = 0,
             !.ball.x = P(400), !.ball.y = P(300),
             !.ball.dx = sx * P(3), !.ball.dy = sy * P(3)]

\* the "fresh game on join" block of handleJoinRoom; sx, sy: Math.random() > 0.5
FreshGame(gs, sx, sy) ==
  [gs EXCEPT !.score = [left |-> 0, right |-> 0, top |-> 0, bottom |-> 0],
             !.winner = Null, !.gameEnded = FALSE, !.isPlaying = TRUE,
             !.isPaused = FALSE, !.pauseEndTime = 0,
             !.ball.x = P(400), !.ball.y = P(300),
             !.ball.dx = sx * P(3), !.ball.dy = sy * P(3)]

handleJoinRoom(S, open, ws, playerId, roomId, forceSpectator, t, rnd) ==
  LET room0 == IF roomId \in DOMAIN S.rooms THEN S.rooms[roomId]
               ELSE createNewRoom(roomId, t, rnd.sy)
      playerSide == ChooseSide(room0.players, forceSpectator)
      gm == ElectOnJoin(room0, playerId, forceSpectator)
      player == [id |-> playerId, side |-> playerSide, ws |-> ws,
                 roomId |-> roomId, lastSeen |-> t,
                 lastPaddleSequence |-> Undefined]
      members == MapSet(room0.players, player)
      room1 == [room0 EXCEPT !.players = members, !.gamemaster = gm,
                             !.isActive = TRUE,
                             !.gameState = FreshGame(@, rnd.sx, rnd.sy)]
      rms == [r \in DOMAIN S.rooms \cup {roomId} |->
                IF r = roomId THEN room1 ELSE S.rooms[r]]
  IN [rooms |-> rms,
      players |-> MapSet(S.players, [id |-> playerId, roomId |-> roomId]),
      sent |-> S.sent
        \o sendTo(ws, open, Msg(ws, "joined_room", playerId, playerSide,
                                gm = playerId, Len(members)))
        \o broadcastTo(members, 1, open, "player_joined", playerId,
                       playerSide, Len(members), playerId)]

checkPaddleCollision(p1, p2) ==
  /\ p1.x < p2.x + p2.width
  /\ p1.x + p1.width > p2.x
  /\ p1.y < p2.y + p2.height
  /\ p1.y + p1.height > p2.y

\* the sequence guard of handlePaddleUpdate: TRUE when the update is dropped
StaleUpdate(seq, lastPaddleSequence) ==
  Truthy(seq) /\ Truthy(lastPaddleSequence) /\ seq <= lastPaddleSequence

\* the paddles after a player's update_paddle, corner collisions reverted
MovePaddle(pads, side, data) ==
  LET vel == IF Truthy(data.velocity) THEN data.velocity ELSE 0
      moved ==
        IF side \in {"left", "right"}
        THEN [pads EXCEPT ![side].y = data.y, ![side].velocity = vel,
                ![side].target = IF Truthy(data.targetY) THEN data.targetY
                                 ELSE data.y]
        ELSE IF side \in {"top", "bottom"}
        THEN [pads EXCEPT ![side].x = data.x, ![side].velocity = vel,
                ![side].target = IF Truthy(data.targetX) THEN data.targetX
                                 ELSE data.x]
        ELSE pads
      others == IF side \in {"left", "right"} THEN {"top", "bottom"}
                ELSE IF side \in {"top", "bottom"} THEN {"left", "right"}
                ELSE {}
      blocked == \E o \in others : checkPaddleCollision(moved[side], moved[o])
  IN IF ~blocked THEN moved
     ELSE IF side \in {"left", "right"}
     THEN [moved EXCEPT ![side].y = pads[side].y]
     ELSE [moved EXCEPT ![side].x = pads[side].x]

handlePaddleUpdate(S, open, playerId, data, t) ==
  IF ~Registered(S.players, playerId) THEN S
  ELSE
    LET r == RoomOf(S.players, playerId)
    IN IF r \notin DOMAIN S.rooms THEN S
       ELSE
         LET room == S.rooms[r]
             i == MapIdx(room.players, playerId)
             player == room.players[i]
         IN IF StaleUpdate(data.seq, player.lastPaddleSequence) THEN S
            ELSE
              LET pads == MovePaddle(room.gameState.paddles, player.side, data)
                  pos == IF player.side \in {"left", "right"}
                         THEN pads[player.side].y
                         ELSE IF player.side \in {"top", "bottom"}
                         THEN pads[player.side].x ELSE Undefined
              IN [S EXCEPT
                    !.rooms[r].players[i].lastPaddleSequence = data.seq,
                    !.rooms[r].players[i].lastSeen = t,
                    !.rooms[r].gameState.paddles = pads,
                    !.sent = @ \o broadcastTo(room.players, 1, open,
                                    "paddle_updated", playerId, player.side,
                                    pos, playerId)]

\* an authorization test that only looks the room up
AuthorizedInAnyRoom(rms, roomId, playerId) == roomId \in DOMAIN rms

\* the authorization test shared by the three gamemaster-only handlers
Authorized(rms, roomId, playerId) ==
  roomId \in DOMAIN rms /\ rms[roomId].gamemaster = playerId

handleGameStateUpdate(S, open, playerId, roomId, gameState, t) ==
  IF ~Authorized(S.rooms, roomId, playerId) THEN S
  ELSE
    LET rms == [TouchLastSeen(S.rooms, S.players, playerId, t)
                  EXCEPT ![roomId].gameState = gameState,
                         ![roomId].lastUpdate = t]
    IN [S EXCEPT !.rooms = rms,
                 !.sent = @ \o broadcastToRoom(rms, roomId, open,
                                 "game_state_updated", playerId, Null, 0,
                                 playerId)]

\* a delta that lets the client set the score
ApplyDeltaWithScore(gs, d) ==
  [gs EXCEPT !.score = IF "score" \in DOMAIN d THEN d.score ELSE @]

\* the delta applied to the GameState: fields present in d overwrite, a
\* score field is ignored
ApplyDelta(gs, d) ==
  LET has(f) == f \in DOMAIN d
      ball1 == IF has("ball")
               THEN [f \in DOMAIN gs.ball |->
                       IF f \in DOMAIN d.ball THEN d.ball[f] ELSE gs.ball[f]]
               ELSE gs.ball
  IN [gs EXCEPT
        !.ball = ball1,
        !.isPlaying = IF has("isPlaying") THEN d.isPlaying ELSE @,
        !.isPaused = IF has("isPaused") THEN d.isPaused ELSE @,
        !.winner = IF has("winner") THEN d.winner ELSE @,
        !.gameEnded = IF has("gameEnded") THEN d.gameEnded ELSE @,
        !.pickups = IF has("pickups") THEN d.pickups ELSE @,
        !.arrays.coins = IF has("coins") THEN d.coins ELSE @,
        !.nextPickupTime = IF has("nextPickupTime") THEN d.nextPickupTime
                           ELSE @,
        !.activeEffects = IF has("activeEffects") THEN d.activeEffects ELSE @,
        !.pickupEffect = IF has("pickupEffect") THEN d.pickupEffect ELSE @]

handleGameStateDeltaUpdate(S, open, playerId, roomId, d, t) ==
  IF ~Authorized(S.rooms, roomId, playerId) THEN S
  ELSE
    LET rms == [TouchLastSeen(S.rooms, S.players, playerId, t)
                  EXCEPT ![roomId].gameState = ApplyDelta(@, d),
                         ![roomId].lastUpdate = t]
    IN [S EXCEPT !.rooms = rms,
                 !.sent = @ \o broadcastToRoom(rms, roomId, open,
                                 "update_game_state_delta", playerId, Null, 0,
                                 playerId)]

\* a reset that falls back on the main room when the room named is not
\* registered
handleResetRoomOrMain(S, open, playerId, roomId, t, dySign) ==
  LET target == IF roomId \in DOMAIN S.rooms THEN roomId ELSE MainRoom
  IN IF ~Authorized(S.rooms, target, playerId) THEN S
     ELSE
       LET rms == [S.rooms EXCEPT
                     ![target].gameState = createInitialGameState(t, dySign),
                     ![target].lastUpdate = t]
       IN [S EXCEPT !.rooms = rms,
                    !.sent = @ \o broadcastToRoom(rms, target, open,
                                    "game_reset", playerId, Null, 0, Null)]

handleResetRoom(S, open, playerId, roomId, t, dySign) ==
  IF ~Authorized(S.rooms, roomId, playerId) THEN S
  ELSE
    LET rms == [S.rooms EXCEPT
                  ![roomId].gameState = createInitialGameState(t, dySign),
                  ![roomId].lastUpdate = t]
    IN [S EXCEPT !.rooms = rms,
                 !.sent = @ \o broadcastToRoom(rms, roomId, open, "game_reset",
                                 playerId, Null, 0, Null)]

\* the 'ping' case of handleMessage
handlePing(S, open, ws, playerId, t) ==
  [S EXCEPT !.rooms = TouchLastSeen(S.rooms, S.players, playerId, t),
            !.sent = @ \o sendTo(ws, open, Msg(ws, "pong", playerId, Null,
                                               FALSE, 0))]

\* a room that is deleted even when it is the main room
PersistentNone(roomId) == FALSE

\* a room that outlives its last player
PersistentAll(roomId) == TRUE

\* the room that is never deleted
Persistent(roomId) == roomId = MainRoom

\* a handover that leaves the role with the player who left
NextGamemasterKept(gamemaster, playerId, m) == gamemaster

\* Array.from(room.players.keys())[0]: the gamemaster after playerId left
\* the member list m (already without playerId)
NextGamemaster(gamemaster, playerId, m) ==
  IF gamemaster = playerId /\ Len(m) > 0 THEN m[1].id ELSE gamemaster

\* a promotion of the spectator who joined last
PromotedLast(m, leavingSide) ==
  LET specs == {i \in 1..Len(m) : m[i].side = "spectator"}
  IN IF leavingSide # "spectator" /\ specs # {}
     THEN CHOOSE i \in specs : \A j \in specs : i >= j
     ELSE 0

\* index of the spectator promoted to the side of the leaving player, 0 if none
PromotedIndex(m, leavingSide) ==
  LET specs == {i \in 1..Len(m) : m[i].side = "spectator"}
  IN IF leavingSide # "spectator" /\ specs # {}
     THEN CHOOSE i \in specs : \A j \in specs : i <= j
     ELSE 0

handlePlayerDisconnect(S, open, playerId) ==
  IF ~Registered(S.players, playerId) THEN S
  ELSE
    LET r == RoomOf(S.players, playerId)
        pl == MapDelete(S.players, playerId)
    IN IF r \notin DOMAIN S.rooms THEN [S EXCEPT !.players = pl]
       ELSE
         LET room == S.rooms[r]
             player == MapGet(room.players, playerId)
             m1 == MapDelete(room.players, playerId)
             gm == NextGamemaster(room.gamemaster, playerId, m1)
             gmMsg == IF gm # room.gamemaster
                      THEN sendTo(m1[1].ws, open,
                                  Msg(m1[1].ws, "gamemaster_assigned", gm,
                                      Null, TRUE, 0))
                      ELSE << >>
             k == PromotedIndex(m1, player.side)
             m2 == IF k > 0 THEN [m1 EXCEPT ![k].side = player.side] ELSE m1
             promoMsg == IF k > 0
                         THEN sendTo(m1[k].ws, open,
                                     Msg(m1[k].ws, "joined_room", m1[k].id,
                                         player.side, FALSE, Len(m1)))
                         ELSE << >>
             gs == IF Len(m2) = 0
                   THEN [room.gameState EXCEPT !.isPlaying = FALSE,
                           !.isPaused = FALSE, !.pauseEndTime = 0]
                   ELSE room.gameState
             room1 == [room EXCEPT !.players = m2, !.gamemaster = gm,
                                   !.gameState = gs]
             rms == IF Len(m2) = 0 /\ ~Persistent(r)
                    THEN [q \in DOMAIN S.rooms \ {r} |-> S.rooms[q]]
                    ELSE [S.rooms EXCEPT ![r] = room1]
             leftMsg == IF Len(m2) = 0 THEN << >>
                        ELSE broadcastTo(m2, 1, open, "player_left", playerId,
                                         player.side, Len(m2), Null)
         IN [rooms |-> rms, players |-> pl,
             sent |-> S.sent \o gmMsg \o promoMsg \o leftMsg]

RECURSIVE sweepEveryone(_, _, _, _, _)
\* a sweep that disconnects every player, idle or not
sweepEveryone(S, open, order, i, t) ==
  IF i > Len(order) THEN S
  ELSE sweepEveryone(handlePlayerDisconnect(S, open, order[i].id),
                     open, order, i + 1, t)

RECURSIVE sweepPlayers(_, _, _, _, _)
\* the players.forEach of the cleanup interval over the snapshot `order`
sweepPlayers(S, open, order, i, t) ==
  IF i > Len(order) THEN S
  ELSE
    LET pid == order[i].id
        idle == /\ Registered(S.players, pid)
                /\ t - PlayerRec(S.rooms, S.players, pid).lastSeen
                     > IDLE_TIMEOUT
    IN sweepPlayers(IF idle THEN handlePlayerDisconnect(S, open, pid) ELSE S,
                    open, order, i + 1, t)

\* the rooms.forEach of the cleanup interval
sweepRooms(rms, t) ==
  LET gone == {r \in DOMAIN rms :
                 /\ ~Persistent(r)
                 /\ t - rms[r].lastUpdate > IDLE_TIMEOUT
                 /\ Len(rms[r].players) = 0}
  IN [r \in DOMAIN rms \ gone |->
        IF Len(rms[r].players) = 0 /\ rms[r].isActive
        THEN [rms[r] EXCEPT !.isActive = FALSE, !.gameState.isPlaying = FALSE]
        ELSE rms[r]]

cleanupInterval(S, open, t) ==
  LET S1 == sweepPlayers(S, open, S.players, 1, t)
  IN [S1 EXCEPT !.rooms = sweepRooms(S1.rooms, t)]

-----------------------------------------------------------------------------
(* ServerCollisionDetector *)

\* the result record of detectAABB: the side of least overlap, left, right,
\* top, bottom tried in the order of the code
overlapResult(hit, minOverlap, overlapLeft, overlapRight, overlapTop) ==
  IF ~hit
  THEN [hit |-> FALSE, side |-> "left", normal |-> <<0, 0>>,
        penetration |-> 0, hitPosition |-> 0, continuous |-> FALSE]
  ELSE [hit |-> TRUE,
        side |-> IF minOverlap = overlapLeft THEN "right"
                 ELSE IF minOverlap = overlapRight THEN "left"
                 ELSE IF minOverlap = overlapTop THEN "bottom"
                 ELSE "top",
        normal |-> IF minOverlap = overlapLeft THEN <<0 - 1, 0>>
                   ELSE IF minOverlap = overlapRight THEN <<1, 0>>
                   ELSE IF minOverlap = overlapTop THEN <<0, 0 - 1>>
                   ELSE <<0, 1>>,
        penetration |-> minOverlap, hitPosition |-> 500,
        continuous |-> FALSE]

\* detectAABB: overlap test of two rectangles
detectAABB(o1, o2, buffer) ==
  LET l1 == o1.x  r1 == o1.x + o1.width  t1 == o1.y  b1 == o1.y + o1.height
      l2 == o2.x  r2 == o2.x + o2.width  t2 == o2.y  b2 == o2.y + o2.height
  IN overlapResult(/\ r1 + buffer > l2 - buffer
                   /\ l1 - buffer < r2 + buffer
                   /\ b1 + buffer > t2 - buffer
                   /\ t1 - buffer < b2 + buffer,
                   Min(Min(r1 - l2, r2 - l1), Min(b1 - t2, b2 - t1)),
                   r1 - l2, r2 - l1, b1 - t2)

\* the choice of detectContinuous between the result at the current and at
\* the next-tick position
continuousResult(currentResult, nextResult) ==
  IF nextResult.hit \/ currentResult.hit
  THEN [(IF nextResult.hit THEN nextResult ELSE currentResult)
          EXCEPT !.continuous = TRUE]
  ELSE currentResult

\* a detection that tests only the current position of the object
detectCurrentOnly(o1, o2, buffer) == detectAABB(o1, o2, buffer)

\* detectContinuous: also tests the next-tick position of a moving object
detectContinuous(o1, o2, buffer) ==
  IF o1.vx = 0 /\ o1.vy = 0 THEN detectAABB(o1, o2, buffer)
  ELSE continuousResult(detectAABB(o1, o2, buffer),
                        detectAABB([o1 EXCEPT !.x = o1.x + o1.vx,
                                              !.y = o1.y + o1.vy],
                                   o2, buffer))

\* hit position along the paddle, in thousandths (0 = start edge, 1000 = end)
HitPosition(ballStart, ballSize, paddleStart, paddleSize) ==
  Max(0, Min(1000,
      (((2 * ballStart + ballSize) - (2 * paddleStart + paddleSize)) * 500)
        \div paddleSize + 500))

\* the hit position detectBallPaddle puts into a hit
withHitPosition(result, ball, paddle) ==
  IF ~result.hit THEN result
  ELSE [result EXCEPT !.hitPosition =
          IF paddle.side \in {"left", "right"}
          THEN HitPosition(ball.y, ball.size, paddle.y, paddle.height)
          ELSE HitPosition(ball.x, ball.size, paddle.x, paddle.width)]

\* detectBallPaddle; ball = [x, y, size, vx, vy], paddle carries its side
detectBallPaddle(ball, paddle) ==
  withHitPosition(detectContinuous([x |-> ball.x, y |-> ball.y,
                                    width |-> ball.size, height |-> ball.size,
                                    vx |-> ball.vx, vy |-> ball.vy],
                                   paddle, 0),
                  ball, paddle)

\* detectBallWall: the boundary the ball has fully crossed, or "none"
detectBallWall(ball, canvasWidth, canvasHeight) ==
  IF ball.x + ball.size < 0 - ball.size THEN "left"
  ELSE IF ball.x > canvasWidth + ball.size THEN "right"
  ELSE IF ball.y + ball.size < 0 - ball.size THEN "top"
  ELSE IF ball.y > canvasHeight + ball.size THEN "bottom"
  ELSE "none"

-----------------------------------------------------------------------------
(* updateBallPhysics: AI paddles *)

\* one iteration of the loop of predictBallPosition on the loop state s;
\* s.done is set when the loop returns, s.result then holds what it returns
predictOne(s, targetX, w, h, isHorizontal) ==
  IF s.done THEN s
  ELSE
    LET x1 == s.x + s.dx
        y1 == s.y + s.dy
        bounceY == y1 <= 0 \/ y1 >= h
        dy == IF bounceY THEN 0 - s.dy ELSE s.dy
        y == IF bounceY THEN Max(0, Min(h, y1)) ELSE y1
        bounceX == x1 <= 0 \/ x1 >= w
        dx == IF bounceX THEN 0 - s.dx ELSE s.dx
        x == IF bounceX THEN Max(0, Min(w, x1)) ELSE x1
    IN IF isHorizontal /\ ((dy > 0 /\ y >= targetX) \/ (dy < 0 /\ y <= targetX))
       THEN [s EXCEPT !.done = TRUE, !.result = x]
       ELSE IF ~isHorizontal
               /\ ((dx > 0 /\ x >= targetX) \/ (dx < 0 /\ x <= targetX))
       THEN [s EXCEPT !.done = TRUE, !.result = y]
       ELSE [s EXCEPT !.x = x, !.y = y, !.dx = dx, !.dy = dy]

RECURSIVE predictStep(_, _, _, _, _, _)
\* the loop of predictBallPosition, eight iterations at a time, `iterations`
\* of its 200 already made; s.result starts as the fallback
predictStep(s, targetX, w, h, isHorizontal, iterations) ==
  IF s.done \/ iterations >= 200 THEN s.result
  ELSE LET one(q) == predictOne(q, targetX, w, h, isHorizontal)
       IN predictStep(one(one(one(one(one(one(one(one(s)))))))),
                      targetX, w, h, isHorizontal, iterations + 8)

predictBallPosition(ballX, ballY, ballDX, ballDY, targetX, w, h, isHorizontal) ==
  predictStep([x |-> ballX, y |-> ballY, dx |-> ballDX, dy |-> ballDY,
               done |-> FALSE,
               result |-> IF isHorizontal THEN ballY ELSE ballX],
              targetX, w, h, isHorizontal, 0)

\* the tests of updatePaddleAI that tell whether the ball moves towards the
\* paddle
isApproaching(paddleName, ball) ==
  \/ paddleName = "left" /\ ball.dx < 0
  \/ paddleName = "right" /\ ball.dx > 0
  \/ paddleName = "top" /\ ball.dy < 0
  \/ paddleName = "bottom" /\ ball.dy > 0

\* the coordinate of the paddle's face, where updatePaddleAI predicts the ball
targetCoord(paddleName, w, h) ==
  IF paddleName = "left" THEN P(32)
  ELSE IF paddleName = "right" THEN w - P(32)
  ELSE IF paddleName = "top" THEN P(32)
  ELSE h - P(32)

\* the retargeting and the movement of updatePaddleAI, given the predicted
\* position of the ball
moveTowards(paddleName, paddle, predictedPos, offset) ==
  LET isVertical == paddleName \in {"left", "right"}
      paddleSize == IF isVertical THEN paddle.height ELSE paddle.width
      pos == IF isVertical THEN paddle.y ELSE paddle.x
      retarget == paddle.targetPos = 0
                  \/ Abs(paddle.lastPredictedPos - predictedPos) > P(20)
      targetPos == IF retarget
                   THEN predictedPos + offset - paddleSize \div 2
                   ELSE paddle.targetPos
      distance == Abs(targetPos - pos)
      speed == 15 + (45 * Min(P(100), distance)) \div P(100)
      direction == IF targetPos > pos THEN 1 ELSE 0 - 1
      newPos == IF distance > P(15)
                THEN (IF speed > distance THEN targetPos
                      ELSE pos + direction * speed)
                ELSE pos
      p1 == [paddle EXCEPT !.targetPos = targetPos,
               !.lastPredictedPos = IF retarget THEN predictedPos ELSE @]
  IN IF isVertical THEN [p1 EXCEPT !.y = newPos]
     ELSE [p1 EXCEPT !.x = newPos]

\* updatePaddleAI; offset is the random imperfection plus mistake offset
updatePaddleAI(paddleName, paddle, ball, w, h, offset) ==
  IF ~isApproaching(paddleName, ball) THEN paddle
  ELSE moveTowards(paddleName, paddle,
                   predictBallPosition(ball.x, ball.y, ball.dx, ball.dy,
                                       targetCoord(paddleName, w, h), w, h,
                                       paddleName \in {"top", "bottom"}),
                   offset)

\* resolveCollision of two corner paddles; returns the pair after the reverts
resolveCollision(paddle1, paddle2, old1, old2) ==
  IF ~checkPaddleCollision(paddle1, paddle2) THEN <<paddle1, paddle2>>
  ELSE
    LET revert(p, old) == [p EXCEPT !.x = old.x, !.y = old.y]
        p1Movement == Abs(paddle1.x - old1.x) + Abs(paddle1.y - old1.y)
        p2Movement == Abs(paddle2.x - old2.x) + Abs(paddle2.y - old2.y)
        a == IF p1Movement > p2Movement THEN revert(paddle1, old1)
             ELSE paddle1
        b == IF p1Movement > p2Movement THEN paddle2
             ELSE revert(paddle2, old2)
    IN IF checkPaddleCollision(a, b)
       THEN <<revert(a, old1), revert(b, old2)>>
       ELSE <<a, b>>

\* the four corner resolutions of updateBallPhysics on the paddles ai the AI
\* update left; pads are the paddles before the update
resolveCorners(ai, pads) ==
  LET lt == resolveCollision(ai.left, ai.top, pads.left, pads.top)
      lb == resolveCollision(lt[1], ai.bottom, pads.left, pads.bottom)
      rt == resolveCollision(ai.right, lt[2], pads.right, pads.top)
      rb == resolveCollision(rt[1], lb[2], pads.right, pads.bottom)
  IN [left |-> lb[1], right |-> rb[1], top |-> rt[2], bottom |-> rb[2]]

\* the AI update of the four paddles followed by the four corner resolutions
movePaddles(pads, ball, w, h, offset) ==
  resolveCorners([sd \in PlayingSides |->
                    updatePaddleAI(sd, pads[sd], ball, w, h, offset)], pads)

-----------------------------------------------------------------------------
(* updateBallPhysics: forces, aiming, paddle hits, bricks, movement, scoring *)

RECURSIVE sqrtSearch(_, _, _)
sqrtSearch(n, lo, hi) ==
  IF lo >= hi THEN lo
  ELSE LET mid == (lo + hi + 1) \div 2
       IN IF mid * mid <= n THEN sqrtSearch(n, mid, hi)
          ELSE sqrtSearch(n, lo, mid - 1)

\* Math.sqrt, rounded down
Sqrt(n) == sqrtSearch(n, 0, 40000)

\* one attractor / repulsor acting on the ball (the body of the effects loop)
applyForce(ball, effect) ==
  LET dx == effect.x - (ball.x + ball.size \div 2)
      dy == effect.y - (ball.y + ball.size \div 2)
      distance == Sqrt(dx * dx + dy * dy)
      maxDistance == P(400)
      \* 0.01 * 150 * (1 - (distance / maxDistance)^2), in thousandths
      magnitude == (15 * (maxDistance * maxDistance - distance * distance))
                     \div ((maxDistance * maxDistance) \div 100)
      sgn == IF effect.type = "attractor" THEN 1 ELSE 0 - 1
      bdx == ball.dx + sgn * MulDiv(dx, magnitude, distance * 100)
      bdy == ball.dy + sgn * MulDiv(dy, magnitude, distance * 100)
      currentSpeed == Sqrt(bdx * bdx + bdy * bdy)
      maxVelocity == P(25)
  IN IF effect.type \in {"attractor", "repulsor"}
        /\ effect.x # Undefined /\ effect.y # Undefined
        /\ distance > 0 /\ distance < maxDistance
     THEN IF currentSpeed > maxVelocity
          THEN [ball EXCEPT !.dx = MulDiv(bdx, maxVelocity, currentSpeed),
                            !.dy = MulDiv(bdy, maxVelocity, currentSpeed)]
          ELSE [ball EXCEPT !.dx = bdx, !.dy = bdy]
     ELSE ball

RECURSIVE applyForces(_, _, _)
applyForces(ball, effects, i) ==
  IF i > Len(effects) THEN ball
  ELSE applyForces(applyForce(ball, effects[i]), effects, i + 1)

\* the Super Striker aim timeout
aimTimeout(ball, t) ==
  IF ball.isAiming /\ t - ball.aimStartTime >= 4000
  THEN LET aimDx == ball.aimTargetX - ball.x
           aimDy == ball.aimTargetY - ball.y
           aimDistance == Sqrt(aimDx * aimDx + aimDy * aimDy)
       IN IF aimDistance > 0
          THEN [ball EXCEPT !.dx = MulDiv(aimDx, P(10), aimDistance),
                            !.dy = MulDiv(aimDy, P(10), aimDistance),
                            !.isAiming = FALSE]
          ELSE [ball EXCEPT !.dx = P(10), !.dy = 0, !.isAiming = FALSE]
  ELSE ball

\* cos and sin of the deflection angle n * |n| * PI / 2.2 for |n| = k / 10,
\* in thousandths
CosTable == <<1000, 1000, 998, 992, 974, 937, 871, 765, 611, 402, 142>>
SinTable == <<0, 14, 57, 128, 226, 349, 492, 644, 792, 915, 990>>

\* a collision response that credits the top paddle whatever paddle was hit
paddleBounceByTop(gs, paddle, hitPosition, t, sign, k) ==
  [gs EXCEPT !.ball.dx = 0 - @, !.ball.dy = 0 - @,
             !.ball.lastCollisionTime = t, !.ball.lastTouchedBy = "top"]

\* the paddle-collision response; hitPosition in thousandths; sign and k are
\* the random anti-loop deflection (k / 10 in [0.2, 0.3])
paddleBounce(gs, paddle, hitPosition, t, sign, k) ==
  LET clampedHitPosition == Max(0, Min(1000, hitPosition))
      raw == (clampedHitPosition - 500) * 2
      distanceFromCenter == Abs(clampedHitPosition - 500) * 2
      normalizedPosition == IF Abs(raw) < 150 THEN sign * k * 100 ELSE raw
      idx == (Abs(normalizedPosition) + 50) \div 100 + 1
      c == CosTable[idx] \div 10
      sn == Sign(normalizedPosition) * (SinTable[idx] \div 10)
      boost(v) == MulDiv(MulDiv(v, 1000 + (distanceFromCenter \div 5), 1000),
                         102, 100)
      sd == paddle.side
      b == gs.ball
  IN [gs EXCEPT
        !.ball.dx = boost(IF sd = "left" THEN c
                          ELSE IF sd = "right" THEN 0 - c ELSE sn),
        !.ball.dy = boost(IF sd \in {"left", "right"} THEN sn
                          ELSE IF sd = "top" THEN c ELSE 0 - c),
        !.ball.x = IF sd = "left" THEN paddle.x + paddle.width + P(1)
                   ELSE IF sd = "right" THEN paddle.x - b.size - P(1)
                   ELSE b.x,
        !.ball.y = IF sd = "top" THEN paddle.y + paddle.height + P(1)
                   ELSE IF sd = "bottom" THEN paddle.y - b.size - P(1)
                   ELSE b.y,
        !.ball.lastCollisionTime = t,
        !.ball.lastTouchedBy = sd,
        !.rumbleEffect = [isActive |-> TRUE, startTime |-> t, intensity |-> 4],
        !.colorIndex = (gs.colorIndex + 1) % 8]

\* the four paddle rectangles the collision loop tests, in its order
collisionPaddles(pads, w, h) ==
  << [x |-> BORDER_THICKNESS * 2 * 10, y |-> pads.left.y,
      width |-> pads.left.width, height |-> pads.left.height, side |-> "left"],
     [x |-> w - pads.right.width - BORDER_THICKNESS * 2 * 10,
      y |-> pads.right.y, width |-> pads.right.width,
      height |-> pads.right.height, side |-> "right"],
     [x |-> pads.top.x, y |-> BORDER_THICKNESS * 2 * 10,
      width |-> pads.top.width, height |-> pads.top.height, side |-> "top"],
     [x |-> pads.bottom.x,
      y |-> h - pads.bottom.height - BORDER_THICKNESS * 2 * 10,
      width |-> pads.bottom.width, height |-> pads.bottom.height,
      side |-> "bottom"] >>

\* the first index of the loop order in the set hits, 0 when it is empty
firstOf(hits) ==
  IF hits = {} THEN 0 ELSE CHOOSE i \in hits : \A j \in hits : i <= j

\* index of the first paddle the ball hits, 0 when none is hit
firstPaddleHit(ballForCollision, paddles) ==
  firstOf({i \in 1..Len(paddles) :
             detectBallPaddle(ballForCollision, paddles[i]).hit})

\* the body of the collision loop for the first paddle hit, paddles[i]
bounceOff(gs, ballForCollision, paddles, i, t, sign, k) ==
  IF t - gs.ball.lastCollisionTime > 50 /\ i > 0
  THEN paddleBounce(gs, paddles[i],
                    detectBallPaddle(ballForCollision,
                                     paddles[i]).hitPosition, t, sign, k)
  ELSE gs

\* the cooldown-gated paddle collision loop over the paddle rectangles
collisionLoop(gs, ballForCollision, paddles, t, sign, k) ==
  bounceOff(gs, ballForCollision, paddles,
            firstPaddleHit(ballForCollision, paddles), t, sign, k)

\* the cooldown-gated paddle collision loop
paddleCollisions(gs, w, h, t, sign, k) ==
  collisionLoop(gs, [x |-> gs.ball.x, y |-> gs.ball.y, size |-> gs.ball.size,
                     vx |-> gs.ball.dx, vy |-> gs.ball.dy],
                collisionPaddles(gs.paddles, w, h), t, sign, k)

\* resetBall(); sx, sy are the two Math.random() > 0.5 outcomes
resetBall(gs, sx, sy) ==
  [gs EXCEPT !.ball.x = P(400), !.ball.y = P(300),
             !.ball.dx = sx * P(3), !.ball.dy = sy * P(3),
             !.ball.lastTouchedBy = Null, !.ball.previousTouchedBy = Null,
             !.ball.hasGravity = FALSE, !.ball.isAiming = FALSE,
             !.ball.aimStartTime = 0, !.ball.aimX = 0, !.ball.aimY = 0,
             !.ball.aimTargetX = 0, !.ball.aimTargetY = 0]

OppositeWall(boundaryHit) ==
  IF boundaryHit = "left" THEN "right"
  ELSE IF boundaryHit = "right" THEN "left"
  ELSE IF boundaryHit = "top" THEN "bottom" ELSE "top"

\* a scoring rule that forgets who touched the ball
scoringPlayerOpposite(ball, boundaryHit) == OppositeWall(boundaryHit)

\* who gets the point when the ball crosses boundaryHit
scoringPlayer(ball, boundaryHit) ==
  IF ball.lastTouchedBy # Null
  THEN IF ball.lastTouchedBy = boundaryHit /\ ball.previousTouchedBy # Null
       THEN ball.previousTouchedBy
       ELSE IF ball.lastTouchedBy # boundaryHit THEN ball.lastTouchedBy
       ELSE OppositeWall(boundaryHit)
  ELSE OppositeWall(boundaryHit)

\* a win test that misses the threshold itself
WinsAbove(score) == score > WIN_SCORE

\* the win test of handleScoring
Wins(score) == score >= WIN_SCORE

\* handleScoring(gameState, boundaryHit)
handleScoring(gs, boundaryHit, t, sx, sy) ==
  LET who == scoringPlayer(gs.ball, boundaryHit)
      scored == [gs EXCEPT !.score[who] = @ + 1]
      after == IF Wins(scored.score[who])
               THEN [scored EXCEPT !.winner = who, !.gameEnded = TRUE,
                                   !.isPlaying = FALSE]
               ELSE [scored EXCEPT !.isPaused = TRUE,
                                   !.pauseEndTime = t + GOAL_PAUSE]
  IN resetBall(after, sx, sy)

\* does the ball overlap this brick
brickCollision(ball, brick) ==
  /\ ball.x + ball.size >= brick.x
  /\ ball.x <= brick.x + brick.width
  /\ ball.y + ball.size >= brick.y
  /\ ball.y <= brick.y + brick.height

\* the point awarded for a brick: one for every fourth brick
brickScore(gs, bricksHit) ==
  IF bricksHit % 4 = 0 /\ gs.ball.lastTouchedBy # Null
  THEN [gs.score EXCEPT ![gs.ball.lastTouchedBy] = @ + 1]
  ELSE gs.score

\* the Arkanoid brick loop: the last overlapping brick is removed
arkanoidBricksStep(gs) ==
  LET bricks == gs.arkanoidBricks
      hits == {i \in 1..Len(bricks) :
                 brickCollision(gs.ball, BrickRect(bricks[i]))}
  IN IF "arkanoidActive" \in gs.flags /\ hits # {}
     THEN LET i == CHOOSE k \in hits : \A j \in hits : j <= k
              brick == BrickRect(bricks[i])
              rest == [k \in 1..(Len(bricks) - 1) |->
                         IF k < i THEN bricks[k] ELSE bricks[k + 1]]
              b == gs.ball
              \* twice the centre offsets, to stay in whole numbers
              deltaX == (2 * b.x + b.size) - (2 * brick.x + brick.width)
              deltaY == (2 * b.y + b.size) - (2 * brick.y + brick.height)
              sideways == Abs(deltaX) > Abs(deltaY)
              bounced ==
                [gs EXCEPT
                   !.arkanoidBricks = rest,
                   !.arkanoidBricksHit = @ + 1,
                   !.score = brickScore(gs, gs.arkanoidBricksHit + 1),
                   !.ball.dx = IF sideways THEN 0 - b.dx ELSE b.dx,
                   !.ball.dy = IF sideways THEN b.dy ELSE 0 - b.dy,
                   !.ball.x = IF ~sideways THEN b.x
                              ELSE IF deltaX > 0
                                   THEN brick.x + brick.width + P(1)
                                   ELSE brick.x - b.size - P(1),
                   !.ball.y = IF sideways THEN b.y
                              ELSE IF deltaY > 0
                                   THEN brick.y + brick.height + P(1)
                                   ELSE brick.y - b.size - P(1)]
          IN IF Len(rest) = 0
             THEN [bounced EXCEPT
                     !.flags = @ \ {"arkanoidActive", "arkanoidMode"},
                     !.activeEffects =
                        SelectSeq(@, LAMBDA e : e.type # "arkanoid"),
                     !.score = IF b.lastTouchedBy # Null
                               THEN [@ EXCEPT ![b.lastTouchedBy] = @ + 2]
                               ELSE @]
             ELSE bounced
     ELSE gs

\* ball movement with the safety limits
moveBall(gs, sx, sy) ==
  IF gs.ball.isAiming THEN gs
  ELSE LET b == gs.ball
           MAX_VELOCITY == P(20)
           MAX_POSITION == P(2000)
           moved == [gs EXCEPT
                       !.ball.x = b.x + b.dx, !.ball.y = b.y + b.dy,
                       !.ball.dx = IF Abs(b.dx) > MAX_VELOCITY
                                   THEN Sign(b.dx) * MAX_VELOCITY ELSE b.dx,
                       !.ball.dy = IF Abs(b.dy) > MAX_VELOCITY
                                   THEN Sign(b.dy) * MAX_VELOCITY ELSE b.dy]
       IN IF Abs(moved.ball.x) > MAX_POSITION
             \/ Abs(moved.ball.y) > MAX_POSITION
          THEN resetBall(moved, sx, sy)
          ELSE moved

\* boundary detection and scoring, gated by the 200 ms cooldown
wallScoring(gs, w, h, t, sx, sy) ==
  LET side == detectBallWall([x |-> gs.ball.x, y |-> gs.ball.y,
                              size |-> gs.ball.size, vx |-> gs.ball.dx,
                              vy |-> gs.ball.dy], w, h)
  IN IF side # "none" /\ t - gs.ball.lastCollisionTime > 200
     THEN handleScoring([gs EXCEPT !.ball.lastCollisionTime = t],
                        side, t, sx, sy)
     ELSE gs

-----------------------------------------------------------------------------
(* Pickups and effects.  rnd holds the outcomes of the Math.random() calls: *)
(* rnd.px, rnd.py are fractions in thousandths, rnd.side the left/right     *)
(* coin, rnd.scale the playfield scale target, rnd.warp the time-warp       *)
(* factor                                                                   *)

PICKUP_SIZE == 72

\* generatePickup: the pickup pushed on gameState.pickups
generatePickup(w, h, rnd) ==
  LET padding == P(116)
  IN [type |-> rnd.ptype,
      x |-> ((rnd.px * (w - padding * 2)) \div 1000) + padding,
      y |-> ((rnd.py * (h - padding * 2)) \div 1000) + padding,
      size |-> P(PICKUP_SIZE)]

\* the duration applyPickupEffect gives each effect type
EffectDuration(type) ==
  CASE type \in {"speed_up", "speed_down"} -> 6000
    [] type \in {"drunk_ball", "invisible_ball", "super_striker"} -> 4000
    [] type \in {"freeze_opponent", "super_speed", "machine_gun",
                 "switch_sides", "confetti_cannon"} -> 3000
    [] type \in {"sticky_paddles", "dynamic_playfield", "multi_ball",
                 "disco_mode", "coin_shower", "portal_ball", "black_hole",
                 "ball_trail_mine", "pac_man"} -> 15000
    [] type \in {"time_warp", "balloon_ball", "invisible_paddles",
                 "hypno_ball", "quantum_ball", "banana_peel"} -> 8000
    [] type \in {"gravity_in_space", "rubber_ball", "attractor", "repulsor",
                 "drunk_paddles", "lightning_storm", "paddle_swap"} -> 10000
    [] type = "arkanoid" -> 30000
    [] type = "teleport_ball" -> 2000
    [] type \in {"magnet_ball", "conga_line", "mirror_mode"} -> 12000
    [] type = "earthquake" -> 6000
    [] type = "blocker" -> 20000
    [] OTHER -> 5000

\* the ActiveEffect record applyPickupEffect pushes, as it stands when the
\* switch is done
newEffect(gs, pickup, t, rnd) ==
  LET type == pickup.type
  IN [type |-> type, startTime |-> t, duration |-> EffectDuration(type),
      originalValue |->
        CASE type \in {"big_ball", "small_ball"} -> gs.ball.size
          [] type \in {"grow_paddle", "shrink_paddle"} ->
               gs.paddles[rnd.side].height
          [] type \in {"rubber_ball", "balloon_ball", "banana_peel"} ->
               gs.ball.bounciness
          [] OTHER -> Undefined,
      side |-> IF type \in {"grow_paddle", "shrink_paddle", "freeze_opponent"}
               THEN rnd.side ELSE Null,
      x |-> IF type \in {"attractor", "repulsor"}
            THEN pickup.x + pickup.size \div 2 ELSE Undefined,
      y |-> IF type \in {"attractor", "repulsor"}
            THEN pickup.y + pickup.size \div 2 ELSE Undefined]

\* the two extra balls of multi_ball
multiBalls(ball) ==
  << [x |-> ball.x, y |-> ball.y, dx |-> MulDiv(ball.dx, 8, 10),
      dy |-> MulDiv(ball.dy, 8, 10), size |-> ball.size],
     [x |-> ball.x + P(10), y |-> ball.y + P(10), dx |-> ball.dx,
      dy |-> ball.dy, size |-> ball.size] >>

\* the switch of applyPickupEffect: what it changes besides the effect list
applyMutation(gs, pickup, t, rnd) ==
  LET type == pickup.type
      b == gs.ball
      fx == P(200) + (rnd.px * P(400)) \div 1000
      fy == P(150) + (rnd.py * P(300)) \div 1000
      qx == (rnd.px * P(600)) \div 1000 + P(100)
      qy == (rnd.py * P(400)) \div 1000 + P(100)
  IN CASE type = "speed_up" ->
            [gs EXCEPT !.ball.dx = MulDiv(@, 15, 10),
                       !.ball.dy = MulDiv(@, 15, 10)]
       [] type = "speed_down" ->
            [gs EXCEPT !.ball.dx = MulDiv(@, 4, 10),
                       !.ball.dy = MulDiv(@, 4, 10)]
       [] type = "big_ball" -> [gs EXCEPT !.ball.size = P(18)]
       [] type = "small_ball" -> [gs EXCEPT !.ball.size = P(6)]
       [] type = "drunk_ball" -> [gs EXCEPT !.ball.flags = @ \cup {"isDrunk"}]
       [] type = "grow_paddle" ->
            [gs EXCEPT !.paddles[rnd.side].height =
                          Min(P(150), MulDiv(@, 15, 10))]
       [] type = "shrink_paddle" ->
            [gs EXCEPT !.paddles[rnd.side].height =
                          Max(P(30), MulDiv(@, 6, 10))]
       [] type = "super_speed" ->
            [gs EXCEPT !.ball.dx = MulDiv(@, 25, 10),
                       !.ball.dy = MulDiv(@, 25, 10)]
       [] type = "sticky_paddles" ->
            [gs EXCEPT !.flags = @ \cup {"stickyPaddlesActive"}]
       [] type = "machine_gun" ->
            [gs EXCEPT !.flags = @ \cup {"machineGunActive"},
                       !.aux.machineGunStartTime = t,
                       !.aux.machineGunShooter = b.lastTouchedBy]
       [] type = "dynamic_playfield" ->
            [gs EXCEPT !.aux.playfieldScaleStart = gs.aux.playfieldScale,
                       !.aux.playfieldScaleTarget = rnd.scale,
                       !.aux.playfieldScaleTime = t]
       [] type = "switch_sides" ->
            [gs EXCEPT !.score = [left |-> gs.score.right,
                                  right |-> gs.score.left,
                                  top |-> gs.score.bottom,
                                  bottom |-> gs.score.top],
                       !.flags = IF "sidesSwitched" \in @
                                 THEN @ \ {"sidesSwitched"}
                                 ELSE @ \cup {"sidesSwitched"}]
       [] type = "time_warp" ->
            [gs EXCEPT !.flags = @ \cup {"timeWarpActive"},
                       !.aux.timeWarpFactor = rnd.warp]
       [] type = "gravity_in_space" -> [gs EXCEPT !.ball.hasGravity = TRUE]
       [] type = "super_striker" ->
            [gs EXCEPT !.ball.isAiming = TRUE, !.ball.aimStartTime = t,
                       !.ball.aimX = b.x, !.ball.aimY = b.y,
                       !.ball.dx = 0, !.ball.dy = 0]
       [] type = "arkanoid" ->
            [gs EXCEPT !.arkanoidBricks = ArkanoidBrickIds,
                       !.flags = @ \cup {"arkanoidActive", "arkanoidMode"},
                       !.arkanoidBricksHit = 0]
       [] type = "multi_ball" ->
            [gs EXCEPT !.extraBalls = @ \o multiBalls(b)]
       [] type = "teleport_ball" ->
            [gs EXCEPT !.ball.x = fx, !.ball.y = fy,
                       !.ball.flags = @ \cup {"isTeleporting"},
                       !.ball.lastTeleportTime = t]
       [] type = "rubber_ball" ->
            [gs EXCEPT !.ball.bounciness = 15,
                       !.ball.flags = @ \ {"isSlippery"}]
       [] type = "balloon_ball" ->
            [gs EXCEPT !.ball.flags = @ \cup {"isFloating"},
                       !.ball.bounciness = 8]
       [] type = "magnet_ball" ->
            [gs EXCEPT !.ball.flags = @ \cup {"isMagnetic"}]
       [] type = "invisible_paddles" -> [gs EXCEPT !.aux.paddleVisibility = 2]
       [] type = "drunk_paddles" ->
            [gs EXCEPT !.flags = @ \cup {"paddlesDrunk"},
                       !.aux.drunkStartTime = t]
       [] type = "earthquake" ->
            [gs EXCEPT !.flags = @ \cup {"earthquakeActive"},
                       !.aux.earthquakeStartTime = t]
       [] type = "hypno_ball" ->
            [gs EXCEPT !.ball.flags = @ \cup {"isHypnotic"},
                       !.aux.hypnoStartTime = t]
       [] type = "disco_mode" ->
            [gs EXCEPT !.flags = @ \cup {"discoMode"},
                       !.aux.discoStartTime = t]
       [] type = "conga_line" -> [gs EXCEPT !.arrays.congaBalls = 3]
       [] type = "confetti_cannon" -> [gs EXCEPT !.arrays.confetti = 20]
       [] type = "coin_shower" -> [gs EXCEPT !.arrays.coins = 10]
       [] type = "blocker" -> [gs EXCEPT !.arrays.walls = 3]
       [] type = "portal_ball" ->
            [gs EXCEPT !.ball.flags = @ \cup {"hasPortal"},
                       !.ball.portalX = qx, !.ball.portalY = qy]
       [] type = "mirror_mode" ->
            [gs EXCEPT !.ball.flags = @ \cup {"isMirror"},
                       !.arrays.mirrorBalls = 2]
       [] type = "quantum_ball" ->
            [gs EXCEPT !.ball.flags = @ \cup {"isQuantum"},
                       !.arrays.quantumPositions = 3]
       [] type = "black_hole" -> [gs EXCEPT !.arrays.blackHoles = 2]
       [] type = "lightning_storm" -> [gs EXCEPT !.arrays.lightningStrikes = 0]
       [] type = "ball_trail_mine" ->
            [gs EXCEPT !.ball.flags = @ \cup {"hasTrailMines"},
                       !.arrays.trailMines = 0]
       [] type = "paddle_swap" ->
            [gs EXCEPT !.flags = @ \cup {"paddleSwapActive"},
                       !.aux.nextPaddleSwapTime = t + 2000]
       [] type = "pac_man" -> [gs EXCEPT !.arrays.pacMans = 3]
       [] type = "banana_peel" ->
            [gs EXCEPT !.ball.flags = @ \cup {"isSlippery"},
                       !.ball.bounciness = 12]
       [] OTHER -> gs

\* applyPickupEffect(gameState, pickup)
applyPickupEffect(gs, pickup, t, rnd) ==
  [applyMutation(gs, pickup, t, rnd) EXCEPT
     !.activeEffects = Append(gs.activeEffects, newEffect(gs, pickup, t, rnd))]

\* a reversal that puts the initial values back instead of the saved ones
reverseToInitial(gs, effect) ==
  CASE effect.type \in {"big_ball", "small_ball"} ->
         [gs EXCEPT !.ball.size = P(12)]
    [] effect.type \in {"grow_paddle", "shrink_paddle"} ->
         [gs EXCEPT !.paddles[effect.side].height = P(PADDLE_LENGTH)]
    [] effect.type \in {"rubber_ball", "balloon_ball", "banana_peel"} ->
         [gs EXCEPT !.ball.bounciness = 10]
    [] OTHER -> gs

\* reversePickupEffect(gameState, effect)
reversePickupEffect(gs, effect) ==
  LET type == effect.type
      saved == effect.originalValue # Undefined
  IN CASE type \in {"big_ball", "small_ball"} ->
            IF saved THEN [gs EXCEPT !.ball.size = effect.originalValue]
            ELSE gs
       [] type = "drunk_ball" -> [gs EXCEPT !.ball.flags = @ \ {"isDrunk"}]
       [] type \in {"grow_paddle", "shrink_paddle"} ->
            IF effect.side # Null /\ saved
            THEN [gs EXCEPT !.paddles[effect.side].height =
                              effect.originalValue]
            ELSE gs
       [] type = "gravity_in_space" -> [gs EXCEPT !.ball.hasGravity = FALSE]
       [] type = "super_striker" -> [gs EXCEPT !.ball.isAiming = FALSE]
       [] type = "sticky_paddles" ->
            [gs EXCEPT !.flags = @ \ {"stickyPaddlesActive"}]
       [] type = "machine_gun" ->
            [gs EXCEPT !.flags = @ \ {"machineGunActive"},
                       !.arrays.machineGunBalls = 0]
       [] type = "dynamic_playfield" ->
            [gs EXCEPT !.aux.playfieldScale = 100,
                       !.aux.playfieldScaleTarget = 100]
       [] type = "time_warp" ->
            [gs EXCEPT !.flags = @ \ {"timeWarpActive"},
                       !.aux.timeWarpFactor = 10]
       [] type = "arkanoid" ->
            [gs EXCEPT !.arkanoidBricks = << >>,
                       !.flags = @ \ {"arkanoidActive", "arkanoidMode"},
                       !.arkanoidBricksHit = 0]
       [] type = "multi_ball" -> [gs EXCEPT !.extraBalls = << >>]
       [] type = "teleport_ball" ->
            [gs EXCEPT !.ball.flags = @ \ {"isTeleporting"}]
       [] type = "rubber_ball" ->
            [gs EXCEPT !.ball.bounciness = IF saved THEN effect.originalValue
                                           ELSE @,
                       !.ball.flags = @ \ {"isSlippery"}]
       [] type = "balloon_ball" ->
            [gs EXCEPT !.ball.flags = @ \ {"isFloating"},
                       !.ball.bounciness = IF saved THEN effect.originalValue
                                           ELSE @]
       [] type = "magnet_ball" ->
            [gs EXCEPT !.ball.flags = @ \ {"isMagnetic"}]
       [] type = "invisible_paddles" ->
            [gs EXCEPT !.aux.paddleVisibility = 10]
       [] type = "drunk_paddles" -> [gs EXCEPT !.flags = @ \ {"paddlesDrunk"}]
       [] type = "earthquake" ->
            [gs EXCEPT !.flags = @ \ {"earthquakeActive"}]
       [] type = "hypno_ball" ->
            [gs EXCEPT !.ball.flags = @ \ {"isHypnotic"}]
       [] type = "disco_mode" -> [gs EXCEPT !.flags = @ \ {"discoMode"}]
       [] type = "conga_line" -> [gs EXCEPT !.arrays.congaBalls = 0]
       [] type = "confetti_cannon" -> [gs EXCEPT !.arrays.confetti = 0]
       [] type = "coin_shower" -> [gs EXCEPT !.arrays.coins = 0]
       [] type = "blocker" -> [gs EXCEPT !.arrays.walls = 0]
       [] type = "portal_ball" ->
            [gs EXCEPT !.ball.flags = @ \ {"hasPortal"}]
       [] type = "mirror_mode" ->
            [gs EXCEPT !.ball.flags = @ \ {"isMirror"},
                       !.arrays.mirrorBalls = 0]
       [] type = "quantum_ball" ->
            [gs EXCEPT !.ball.flags = @ \ {"isQuantum"},
                       !.arrays.quantumPositions = 0]
       [] type = "black_hole" -> [gs EXCEPT !.arrays.blackHoles = 0]
       [] type = "lightning_storm" -> [gs EXCEPT !.arrays.lightningStrikes = 0]
       [] type = "ball_trail_mine" ->
            [gs EXCEPT !.ball.flags = @ \ {"hasTrailMines"},
                       !.arrays.trailMines = 0]
       [] type = "paddle_swap" ->
            [gs EXCEPT !.flags = @ \ {"paddleSwapActive"}]
       [] type = "pac_man" -> [gs EXCEPT !.arrays.pacMans = 0]
       [] type = "banana_peel" ->
            [gs EXCEPT !.ball.flags = @ \ {"isSlippery"},
                       !.ball.bounciness = IF saved THEN effect.originalValue
                                           ELSE @]
       [] OTHER -> gs

\* the expiry test of updateActiveEffects
isExpired(effect, t) == t - effect.startTime > effect.duration

RECURSIVE reverseExpired(_, _, _, _)
\* the filter callback of updateActiveEffects run over the list effects:
\* expired effects are reversed in list order
reverseExpired(gs, effects, i, t) ==
  IF i > Len(effects) THEN gs
  ELSE reverseExpired(IF isExpired(effects[i], t)
                      THEN reversePickupEffect(gs, effects[i]) ELSE gs,
                      effects, i + 1, t)

\* updateActiveEffects(gameState, now)
updateActiveEffects(gs, t) ==
  LET effects == gs.activeEffects
      reversed == reverseExpired(gs, effects, 1, t)
      kept == SelectSeq(effects, LAMBDA e : ~isExpired(e, t))
  IN [reversed EXCEPT
        !.activeEffects = kept,
        !.pickupEffect.isActive =
           IF @ /\ t - gs.pickupEffect.startTime > 1000 THEN FALSE ELSE @,
        !.rumbleEffect.isActive =
           IF @ /\ t - gs.rumbleEffect.startTime > 500 THEN FALSE ELSE @]

\* is the centre of a ball closer to the centre of the pickup than the sum of
\* the two half sizes (all lengths doubled to stay in whole numbers)
touchesPickup(ball, pickup) ==
  LET size == IF pickup.size # 0 THEN pickup.size ELSE P(PICKUP_SIZE)
      dx2 == (2 * ball.x + ball.size) - (2 * pickup.x + size)
      dy2 == (2 * ball.y + ball.size) - (2 * pickup.y + size)
      reach == ball.size + size
  IN /\ Abs(dx2) < reach
     /\ Abs(dy2) < reach
     /\ dx2 * dx2 + dy2 * dy2 < reach * reach

\* the `collected` flag of the collection loop
collected(gs, pickup) ==
  \/ touchesPickup(gs.ball, pickup)
  \/ \E i \in 1..Len(gs.extraBalls) : touchesPickup(gs.extraBalls[i], pickup)

RECURSIVE collectPickups(_, _, _, _)
\* the collection loop, from the last pickup (index i) down to the first
collectPickups(gs, i, t, rnd) ==
  IF i < 1 THEN gs
  ELSE LET pickup == gs.pickups[i]
           taken == [applyPickupEffect(gs, pickup, t, rnd) EXCEPT
                       !.pickups = [k \in 1..(Len(gs.pickups) - 1) |->
                                      IF k < i THEN gs.pickups[k]
                                      ELSE gs.pickups[k + 1]],
                       !.pickupEffect = [isActive |-> TRUE, startTime |-> t,
                                         x |-> pickup.x, y |-> pickup.y]]
       IN collectPickups(IF collected(gs, pickup) THEN taken ELSE gs,
                         i - 1, t, rnd)

\* a pickup step that spawns whenever the spawn time has come, however many
\* pickups are live
updatePickupsUnbounded(gs, w, h, t, rnd) ==
  LET spawned == IF t >= gs.nextPickupTime
                 THEN [gs EXCEPT
                         !.pickups = Append(@, generatePickup(w, h, rnd)),
                         !.nextPickupTime = t + 15000]
                 ELSE gs
  IN collectPickups(spawned, Len(spawned.pickups), t, rnd)

\* updatePickups(gameState, canvasSize, now)
updatePickups(gs, w, h, t, rnd) ==
  LET gameTime == t - (gs.nextPickupTime - 5000)
      currentInterval == Max(10000, 15000 - gameTime \div 12)
      spawned == IF t >= gs.nextPickupTime /\ Len(gs.pickups) < 2
                 THEN [gs EXCEPT
                         !.pickups = Append(@, generatePickup(w, h, rnd)),
                         !.nextPickupTime = t + currentInterval]
                 ELSE gs
  IN collectPickups(spawned, Len(spawned.pickups), t, rnd)

\* the paddle step of updateBallPhysics
paddleStep(gs, w, h, offset) ==
  [gs EXCEPT !.paddles = movePaddles(gs.paddles, gs.ball, w, h, offset)]

\* the gravity, force and aiming steps of updateBallPhysics
ballForces(gs, t) ==
  LET dy == IF gs.ball.hasGravity THEN gs.ball.dy + 3 ELSE gs.ball.dy
  IN [gs EXCEPT !.ball = aimTimeout(applyForces([gs.ball EXCEPT !.dy = dy],
                                                gs.activeEffects, 1), t)]

\* updateBallPhysics up to the ball movement: the state in which the
\* boundary detection runs
beforeWalls(gs, w, h, t, rnd) ==
  moveBall(arkanoidBricksStep(paddleCollisions(
             ballForces(paddleStep(gs, w, h, rnd.offset), t),
             w, h, t, rnd.sign, rnd.k)), rnd.sx, rnd.sy)

\* updateBallPhysics(gameState, canvasSize)
updateBallPhysics(gs, w, h, t, rnd) ==
  wallScoring(beforeWalls(gs, w, h, t, rnd), w, h, t, rnd.sx, rnd.sy)

\* the record of a tick that simulated nothing
NoLog == [boundary |-> Null, credited |-> Null, collected |-> {},
          expired |-> {}]

\* the pause-expiry test at the head of the per-room tick
unpause(gs, t) ==
  IF gs.isPaused /\ gs.pauseEndTime > 0 /\ t >= gs.pauseEndTime
  THEN [gs EXCEPT !.isPaused = FALSE, !.pauseEndTime = 0]
  ELSE gs

\* the simulation guard of updateGameLogic
Simulating(gs) == gs.isPlaying /\ ~gs.isPaused /\ ~gs.gameEnded

\* the boundary scoring of updateBallPhysics on the state g7 the ball
\* movement left: the state after it, the boundary processed for scoring and
\* the side credited
scoreStep(g7, w, h, t, rnd) ==
  LET side == detectBallWall([x |-> g7.ball.x, y |-> g7.ball.y,
                              size |-> g7.ball.size, vx |-> g7.ball.dx,
                              vy |-> g7.ball.dy], w, h)
      scoring == side # "none" /\ t - g7.ball.lastCollisionTime > 200
  IN [gs |-> IF scoring
             THEN handleScoring([g7 EXCEPT !.ball.lastCollisionTime = t],
                                side, t, rnd.sx, rnd.sy)
             ELSE g7,
      boundary |-> IF scoring THEN side ELSE Null,
      credited |-> IF scoring THEN scoringPlayer(g7.ball, side) ELSE Null]

\* what a tick did, given the scoring step s8 and the state g9 that
\* updatePickups left: the pickup types collected and the effect types that
\* updateActiveEffects is about to expire
tickLog(s8, g9, t) ==
  [boundary |-> s8.boundary, credited |-> s8.credited,
   collected |-> {g9.activeEffects[i].type :
                    i \in (Len(s8.gs.activeEffects) + 1)
                            ..Len(g9.activeEffects)},
   expired |-> {g9.activeEffects[i].type :
                  i \in {j \in 1..Len(g9.activeEffects) :
                           isExpired(g9.activeEffects[j], t)}}]

\* updateActiveEffects on the state g9 that updatePickups left
effectStep(s8, g9, t) ==
  [gs |-> updateActiveEffects(g9, t), log |-> tickLog(s8, g9, t)]

\* updatePickups and updateActiveEffects after the scoring step s8
afterScoring(s8, w, h, t, rnd) ==
  effectStep(s8, updatePickups(s8.gs, w, h, t, rnd), t)

\* the simulated part of a tick on the game state gs1: updateBallPhysics,
\* updatePickups, updateActiveEffects
simulate(gs1, w, h, t, rnd) ==
  afterScoring(scoreStep(beforeWalls(gs1, w, h, t, rnd), w, h, t, rnd),
               w, h, t, rnd)

\* the room a simulated tick leaves, given what the simulation returned
simulated(room, sim, t) ==
  [room |-> [room EXCEPT !.gameState = sim.gs, !.lastUpdate = t],
   log |-> sim.log]

\* the room a tick leaves and what the tick did, given the game state gs1
\* after the pause-expiry test
tickGame(room, gs1, t, rnd) ==
  IF ~room.isActive THEN [room |-> room, log |-> NoLog]
  ELSE IF ~Simulating(gs1)
  THEN [room |-> [room EXCEPT !.gameState = gs1, !.lastUpdate = t],
        log |-> NoLog]
  ELSE simulated(room, simulate(gs1, P(CANVAS), P(CANVAS), t, rnd), t)

\* the per-room body of updateGameLogic, without the broadcast: the room it
\* leaves and what it did (the boundary processed for scoring and the side
\* credited, the pickup types collected, the effect types that expired)
tickRoom(room, t, rnd) == tickGame(room, unpause(room.gameState, t), t, rnd)

RECURSIVE tickBroadcastPlaying(_, _, _)
\* a tick that sends the snapshot only while the simulation runs
tickBroadcastPlaying(rms, order, open) ==
  IF order = << >> THEN << >>
  ELSE (IF rms[Head(order)].isActive
           /\ rms[Head(order)].gameState.isPlaying
           /\ ~rms[Head(order)].gameState.isPaused
        THEN broadcastToRoom(rms, Head(order), open, "server_game_update",
                             Null, Null, 0, Null)
        ELSE << >>) \o tickBroadcastPlaying(rms, Tail(order), open)

RECURSIVE tickBroadcast(_, _, _)
\* the server_game_update broadcasts of one tick, room by room in map order
tickBroadcast(rms, order, open) ==
  IF order = << >> THEN << >>
  ELSE (IF rms[Head(order)].isActive
        THEN broadcastToRoom(rms, Head(order), open, "server_game_update",
                             Null, Null, 0, Null)
        ELSE << >>) \o tickBroadcast(rms, Tail(order), open)

\* the tail of updateGameLogic: the rooms the tick leaves and the broadcasts,
\* given the per-room results
tickRooms(S, done, open) ==
  LET rms == [r \in DOMAIN S.rooms |-> done[r].room]
      order == IF "R1" \in DOMAIN rms THEN << MainRoom, "R1" >>
               ELSE << MainRoom >>
  IN [rooms |-> rms, players |-> S.players,
      sent |-> S.sent \o tickBroadcast(rms, order, open),
      log |-> done[MainRoom].log]

\* updateGameLogic(); log tells what the tick did to the main room
updateGameLogic(S, open, t, rnd) ==
  tickRooms(S, [r \in DOMAIN S.rooms |-> tickRoom(S.rooms[r], t, rnd)], open)

-----------------------------------------------------------------------------
(* The server as a state machine *)

\* the server state a handler starts from; every step starts a fresh outbox
Srv == [rooms |-> rooms, players |-> players, sent |-> << >>]

\* sockets whose readyState is OPEN
OpenSockets == {c \in Conns : conns[c].open}

\* flag is the forceSpectator of a join_room and tells whether the payload of
\* an update_game_state_delta carries a score; room is the room named by the
\* message and, for a close, the room the player of the connection is in
Op(name, c, p, r, seq) ==
  [op |-> name, conn |-> c, player |-> p, room |-> r, seq |-> seq,
   flag |-> FALSE, log |-> NoLog]

\* the state a handler leaves
Commit(S, op) ==
  /\ rooms' = S.rooms
  /\ players' = S.players
  /\ sent' = S.sent
  /\ lastOp' = op

\* a socket event can be delivered on connection c
Accepting(c) == conns[c].open

\* ws.on('message'): after the handler the connection remembers the playerId
Received(c, p) ==
  /\ conns' = [conns EXCEPT ![c].playerId = IF p # Null THEN p ELSE @]
  /\ events' = events + 1
  /\ UNCHANGED <<now, advances, ticked>>

\* the state after construction, with the client sockets connected
Init ==
  /\ rooms = [r \in {MainRoom} |-> createPersistentMainRoom(StartTime, 1)]
  /\ players = << >>
  /\ conns = [c \in Conns |-> [open |-> TRUE, playerId |-> Null]]
  /\ now = StartTime
  /\ advances = 0
  /\ events = 0
  /\ ticked = TRUE
  /\ sent = << >>
  /\ lastOp = Op("init", 0, Null, Null, Undefined)

join_room(c, p, r, forceSpectator, rnd) ==
  /\ Accepting(c)
  /\ Commit(handleJoinRoom(Srv, OpenSockets, c, p, r, forceSpectator, now,
                           rnd),
            [Op("join_room", c, p, r, Undefined)
               EXCEPT !.flag = forceSpectator])
  /\ Received(c, p)

update_paddle(c, p, data) ==
  /\ Accepting(c)
  /\ Commit(handlePaddleUpdate(Srv, OpenSockets, p, data, now),
            Op("update_paddle", c, p, Null, data.seq))
  /\ Received(c, p)

update_game_state(c, p, r, gameState) ==
  /\ Accepting(c)
  /\ Commit(handleGameStateUpdate(Srv, OpenSockets, p, r, gameState, now),
            Op("update_game_state", c, p, r, Undefined))
  /\ Received(c, p)

\* a message that carries no data field: message.data is undefined
NoData == [undefined |-> TRUE]

\* ws.on('message') when JSON.parse throws: the catch block answers with the
\* {error: 'Invalid JSON'} record on the socket of the message
invalid_json(c) ==
  /\ Accepting(c)
  /\ Commit([Srv EXCEPT
               !.sent = sendTo(c, OpenSockets,
                               Msg(c, "error", Null, Null, FALSE, 0))],
            Op("invalid_json", c, Null, Null, Undefined))
  /\ events' = events + 1
  /\ UNCHANGED <<conns, now, advances, ticked>>

\* without data, the handler of an authorized message sets lastSeen and then
\* throws at deltaData.ball: the catch block answers, and the assignment of
\* the connection's playerId is skipped
update_game_state_delta(c, p, r, d) ==
  /\ Accepting(c)
  /\ IF d = NoData /\ Authorized(rooms, r, p)
     THEN /\ Commit([Srv EXCEPT
                       !.rooms = TouchLastSeen(rooms, players, p, now),
                       !.sent = sendTo(c, OpenSockets,
                                       Msg(c, "error", Null, Null, FALSE,
                                           0))],
                    Op("update_game_state_delta", c, p, r, Undefined))
          /\ events' = events + 1
          /\ UNCHANGED <<conns, now, advances, ticked>>
     ELSE /\ Commit(handleGameStateDeltaUpdate(Srv, OpenSockets, p, r, d,
                                               now),
                    [Op("update_game_state_delta", c, p, r, Undefined)
                       EXCEPT !.flag = "score" \in DOMAIN d])
          /\ Received(c, p)

reset_room(c, p, r, dySign) ==
  /\ Accepting(c)
  /\ Commit(handleResetRoom(Srv, OpenSockets, p, r, now, dySign),
            Op("reset_room", c, p, r, Undefined))
  /\ Received(c, p)

ping(c, p) ==
  /\ Accepting(c)
  /\ Commit(handlePing(Srv, OpenSockets, c, p, now),
            Op("ping", c, p, Null, Undefined))
  /\ Received(c, p)

\* ws.on('close')
close(c) ==
  /\ Accepting(c)
  /\ conns' = [conns EXCEPT ![c].open = FALSE]
  /\ Commit(IF conns[c].playerId # Null
            THEN handlePlayerDisconnect(Srv, OpenSockets \ {c},
                                        conns[c].playerId)
            ELSE Srv,
            Op("close", c, conns[c].playerId,
               IF Registered(players, conns[c].playerId)
               THEN RoomOf(players, conns[c].playerId) ELSE Null,
               Undefined))
  /\ events' = events + 1
  /\ UNCHANGED <<now, advances, ticked>>

\* the cleanup timer
idle_sweep ==
  /\ Commit(cleanupInterval(Srv, OpenSockets, now),
            Op("idle_sweep", 0, Null, Null, Undefined))
  /\ UNCHANGED <<conns, now, advances, events, ticked>>

\* the state a tick leaves
CommitTick(S) ==
  Commit(S, [Op("tick", 0, Null, Null, Undefined) EXCEPT !.log = S.log])

\* the game-loop timer: at most one tick per reading of the clock
tick(rnd) ==
  /\ ~ticked
  /\ ticked' = TRUE
  /\ CommitTick(updateGameLogic(Srv, OpenSockets, now, rnd))
  /\ UNCHANGED <<conns, now, advances, events>>

\* time passes
advance_clock(d) ==
  /\ advances' = advances + 1
  /\ now' = now + d
  /\ ticked' = FALSE
  /\ sent' = << >>
  /\ lastOp' = Op("clock", 0, Null, Null, Undefined)
  /\ UNCHANGED <<rooms, players, conns, events>>

-----------------------------------------------------------------------------
(* Inputs *)

\* the outcomes of Math.random() explored
JoinRnd == {[sx |-> 1, sy |-> 1]}

\* another outcome of the two Math.random() > 0.5 of a fresh game: the ball
\* leaves the centre towards the top left
KickOffTopLeft == [sx |-> 0 - 1, sy |-> 0 - 1]

TickRnd ==
  {[offset |-> 0, sign |-> 1, k |-> 2, sx |-> 1, sy |-> 0 - 1,
    ptype |-> "big_ball", px |-> 500, py |-> 500, side |-> "left",
    scale |-> 70, warp |-> 5]}

\* update_paddle payloads: a position, with or without a sequence number
PaddleData(pos, seq) ==
  [y |-> pos, x |-> pos, velocity |-> 0, targetY |-> Undefined,
   targetX |-> Undefined, seq |-> seq]

PaddleInputs ==
  {PaddleData(P(100), Undefined), PaddleData(P(200), 0),
   PaddleData(P(250), 3), PaddleData(P(300), 5)}

\* GameStates a gamemaster uploads.
\* The untouched ball is about to cross the right boundary while the left
\* side is one point from the threshold
MatchPoint(t) ==
  [createInitialGameState(t, 1) EXCEPT
     !.score.left = WIN_SCORE - 1,
     !.ball.x = P(CANVAS) + P(5), !.ball.y = P(400), !.ball.dy = 0]

\* the ball last touched by left after top is about to cross the left boundary
OwnGoal(t) ==
  [createInitialGameState(t, 1) EXCEPT
     !.ball.x = 0 - P(20), !.ball.y = P(400), !.ball.dx = 0 - P(10),
     !.ball.dy = 0, !.ball.lastTouchedBy = "left",
     !.ball.previousTouchedBy = "top"]

\* Arkanoid mode with three bricks hit: the ball last touched by left, one
\* point from the threshold, lies on the centre brick
BrickPoint(t) ==
  [createInitialGameState(t, 1) EXCEPT
     !.score.left = WIN_SCORE - 1, !.ball.lastTouchedBy = "left",
     !.flags = {"arkanoidActive", "arkanoidMode"},
     !.arkanoidBricks = ArkanoidBrickIds, !.arkanoidBricksHit = 3]

\* a pickup of the given type lies in the path of the ball
PickupAhead(t, type) ==
  [createInitialGameState(t, 1) EXCEPT
     !.ball.dx = P(3), !.ball.dy = P(3),
     !.pickups = << [type |-> type, x |-> P(370), y |-> P(270),
                     size |-> P(PICKUP_SIZE)] >>]

\* the own goal of a ball that collected drunk_ball just before
DrunkGoal(t) ==
  [OwnGoal(t) EXCEPT
     !.ball.flags = {"isDrunk"},
     !.activeEffects =
        << [type |-> "drunk_ball", startTime |-> t,
            duration |-> EffectDuration("drunk_ball"),
            originalValue |-> Undefined, side |-> Null,
            x |-> Undefined, y |-> Undefined] >>]

\* balls in front of the left paddle, which spans x = 24..36, a ball on a
\* pickup, a ball that draws two paddles into a corner and an aiming ball
Shots(t) ==
  { \* four pixels from the paddle, ten pixels a tick towards it
    [createInitialGameState(t, 1) EXCEPT
       !.ball.x = P(40), !.ball.y = P(300),
       !.ball.dx = 0 - P(10), !.ball.dy = 0],
    \* the same ball, which has just bounced off another paddle
    [createInitialGameState(t, 1) EXCEPT
       !.ball.x = P(40), !.ball.y = P(300),
       !.ball.dx = 0 - P(10), !.ball.dy = 0,
       !.ball.lastTouchedBy = "top", !.ball.lastCollisionTime = t],
    \* the ball of small_ball at the clamped speed, one pixel from the paddle
    [createInitialGameState(t, 1) EXCEPT
       !.ball.x = P(37), !.ball.y = P(300), !.ball.size = P(6),
       !.ball.dx = 0 - P(20), !.ball.dy = 0],
    \* the ball at its initial speed is about to collect super_speed
    [PickupAhead(t, "super_speed") EXCEPT
       !.ball.dx = P(10), !.ball.dy = P(10)],
    \* the ball runs down the diagonal into the top left corner, and the left
    \* and the top paddle, two pixels clear of each other, both follow it
    [createInitialGameState(t, 1) EXCEPT
       !.ball.x = P(100), !.ball.y = P(100),
       !.ball.dx = 0 - P(5), !.ball.dy = 0 - P(5),
       !.paddles.left.y = P(38), !.paddles.top.x = P(38),
       !.paddles.left.targetPos = 0 - P(20),
       !.paddles.top.targetPos = 0 - P(20),
       !.paddles.left.lastPredictedPos = P(30),
       !.paddles.top.lastPredictedPos = P(30)],
    \* the ball has been aiming for 3.98 seconds, and a second super_striker
    \* lies on it
    [PickupAhead(t, "super_striker") EXCEPT
       !.ball.dx = 0, !.ball.dy = 0, !.ball.isAiming = TRUE,
       !.ball.aimStartTime = t - 3980,
       !.ball.aimX = P(400), !.ball.aimY = P(300),
       !.activeEffects =
          << [type |-> "super_striker", startTime |-> t - 3980,
              duration |-> EffectDuration("super_striker"),
              originalValue |-> Undefined, side |-> Null,
              x |-> Undefined, y |-> Undefined] >>] }

Uploads(t) ==
  {MatchPoint(t), OwnGoal(t), BrickPoint(t), PickupAhead(t, "big_ball"),
   PickupAhead(t, "speed_up"), DrunkGoal(t),
   \* the ball collected big_ball a second ago and is on a small_ball
   [PickupAhead(t, "small_ball") EXCEPT
      !.ball.size = P(18),
      !.activeEffects =
         << [type |-> "big_ball", startTime |-> t - 1000,
             duration |-> EffectDuration("big_ball"),
             originalValue |-> P(12), side |-> Null,
             x |-> Undefined, y |-> Undefined] >>]} \cup Shots(t)

\* update_game_state_delta payloads: a pause, a payload that carries nothing
\* but a score, a list of three pickups, and a message without data
Deltas ==
  {[isPaused |-> TRUE],
   [score |-> [left |-> 7, right |-> 0, top |-> 0, bottom |-> 0]],
   [pickups |-> [i \in 1..3 |->
                   [type |-> "big_ball", x |-> P(100 * i), y |-> P(100),
                    size |-> P(PICKUP_SIZE)]]],
   NoData}

\* time passes by a frame or by more than the idle timeout
ClockSteps == {17, IDLE_TIMEOUT + 1}

\* who speaks on which connection: connection i carries player i, and the
\* last connection is also a second connection of the first player
Clients ==
  {<<c, PlayerName(c)>> : c \in 1..Min(NumConns, NumPlayers)}
    \cup {<<NumConns, PlayerName(1)>>}

\* two clients, the first of which sends the game messages
Pair == {<<1, PlayerName(1)>>, <<2, PlayerName(2)>>}

\* the join_room messages of the game specification: either client asks
\* for a side, the second one may also ask to watch
GameJoins ==
  {[c |-> cl[1], p |-> cl[2], f |-> FALSE, rnd |-> rnd] :
     cl \in Pair, rnd \in JoinRnd}
    \cup {[c |-> 2, p |-> PlayerName(2), f |-> TRUE, rnd |-> KickOffTopLeft]}

-----------------------------------------------------------------------------
(* The game specification: the whole server, two clients in the main room *)

JoinRoom ==
  /\ events < MaxEvents
  /\ \E j \in GameJoins : join_room(j.c, j.p, MainRoom, j.f, j.rnd)

PaddleUpdate ==
  /\ events < MaxEvents
  /\ \E data \in PaddleInputs : update_paddle(1, PlayerName(1), data)

GameStateUpdate ==
  /\ events < MaxEvents
  /\ \E gameState \in Uploads(now) :
       update_game_state(1, PlayerName(1), MainRoom, gameState)

DeltaUpdate ==
  /\ events < MaxEvents
  /\ \E d \in Deltas : update_game_state_delta(1, PlayerName(1), MainRoom, d)

ResetRoom ==
  /\ events < MaxEvents
  /\ reset_room(1, PlayerName(1), MainRoom, 1)

InvalidJson ==
  /\ events < MaxEvents
  /\ \E cl \in Pair : invalid_json(cl[1])

Ping ==
  /\ events < MaxEvents
  /\ ping(1, PlayerName(1))

Close ==
  /\ events < MaxEvents
  /\ \E cl \in Pair : close(cl[1])

IdleSweep == idle_sweep

Tick == \E rnd \in TickRnd : tick(rnd)

AdvanceClock ==
  /\ advances < MaxAdvances
  /\ \E d \in ClockSteps : advance_clock(d)

Next ==
  \/ JoinRoom
  \/ PaddleUpdate
  \/ GameStateUpdate
  \/ DeltaUpdate
  \/ ResetRoom
  \/ InvalidJson
  \/ Ping
  \/ Close
  \/ IdleSweep
  \/ Tick
  \/ AdvanceClock

Spec == Init /\ [][Next]_vars

-----------------------------------------------------------------------------
(* The registry specification: the socket events and the cleanup timer, with *)
(* every client, both rooms and forced spectators.  The game loop, which     *)
(* writes only gameState and lastUpdate, is left to the game specification   *)

RegistryJoin ==
  /\ events < RegistryEvents
  /\ \E cl \in Clients, r \in RoomIds, f \in BOOLEAN, rnd \in JoinRnd :
       join_room(cl[1], cl[2], r, f, rnd)

RegistryPaddle ==
  /\ events < RegistryEvents
  /\ \E cl \in Pair : update_paddle(cl[1], cl[2], PaddleData(P(300), 5))

RegistryGameState ==
  /\ events < RegistryEvents
  /\ \E cl \in Pair, r \in RoomIds :
       update_game_state(cl[1], cl[2], r, MatchPoint(now))

RegistryDelta ==
  /\ events < RegistryEvents
  /\ \E cl \in Pair, r \in RoomIds :
       update_game_state_delta(cl[1], cl[2], r, [isPaused |-> TRUE])

RegistryReset ==
  /\ events < RegistryEvents
  /\ \E cl \in Pair, r \in RoomIds : reset_room(cl[1], cl[2], r, 1)

RegistryPing ==
  /\ events < RegistryEvents
  /\ \E cl \in Pair : ping(cl[1], cl[2])

RegistryClose ==
  /\ events < RegistryEvents
  /\ \E c \in Conns : close(c)

RegistrySweep == idle_sweep

RegistryClock ==
  /\ advances < RegistryAdvances
  /\ advance_clock(IDLE_TIMEOUT + 1)

RegistryNext ==
  \/ RegistryJoin
  \/ RegistryPaddle
  \/ RegistryGameState
  \/ RegistryDelta
  \/ RegistryReset
  \/ RegistryPing
  \/ RegistryClose
  \/ RegistrySweep
  \/ RegistryClock

RegistrySpec == Init /\ [][RegistryNext]_vars

-----------------------------------------------------------------------------
(* The lobby specification: more players than playing sides come and go in   *)
(* the main room, over two connections                                       *)

\* who speaks on which connection: the players alternate between two sockets
LobbyClients == {<<1 + (i % 2), PlayerName(i)>> : i \in 1..LobbySize}

LobbyJoin ==
  /\ events < LobbyEvents
  /\ \E cl \in LobbyClients, f \in BOOLEAN, rnd \in JoinRnd :
       join_room(cl[1], cl[2], MainRoom, f, rnd)

LobbyClose ==
  /\ events < LobbyEvents
  /\ \E c \in {1, 2} : close(c)

LobbyNext ==
  \/ LobbyJoin
  \/ LobbyClose

LobbySpec == Init /\ [][LobbyNext]_vars

-----------------------------------------------------------------------------
(* Properties of the session registry *)

Members(r) == rooms[r].players

\* C1: in every room, no two distinct members hold the same playing side
\* (left, right, top or bottom)
OneMemberPerSide ==
  \A r \in DOMAIN rooms :
    \A i, j \in 1..Len(Members(r)) :
      (i # j /\ Members(r)[i].side \in PlayingSides)
        => Members(r)[i].side # Members(r)[j].side

\* a connection has just gone (close or idle sweep), a spectator was promoted
\* to the vacated side, and the room has members on two playing sides
PromotedBesideAnother ==
  /\ lastOp.op \in {"close", "idle_sweep"}
  /\ \E k \in 1..Len(sent) : sent[k].type = "joined_room"
  /\ \E r \in DOMAIN rooms :
       \E i, j \in 1..Len(Members(r)) :
         /\ i # j
         /\ Members(r)[i].side \in PlayingSides
         /\ Members(r)[j].side \in PlayingSides

GamemasterOps == {"update_game_state", "update_game_state_delta", "reset_room"}

\* C2: an update_game_state, update_game_state_delta or reset_room whose
\* playerId is not the gamemaster of the named room leaves the GameState and
\* lastUpdate of that room unchanged and sends no message to anyone
OnlyGamemasterAlters ==
  [][lastOp'.op \in GamemasterOps =>
       \A r \in DOMAIN rooms :
         (lastOp'.room = r /\ rooms[r].gamemaster # lastOp'.player)
           => /\ r \in DOMAIN rooms'
              /\ rooms'[r].gameState = rooms[r].gameState
              /\ rooms'[r].lastUpdate = rooms[r].lastUpdate
              /\ sent' = << >>]_vars

\* a member of a room that has another gamemaster has just sent reset_room
\* for it, after the clock moved on
ResetByAnother ==
  /\ lastOp.op = "reset_room"
  /\ lastOp.room \in DOMAIN rooms
  /\ MapHas(Members(lastOp.room), lastOp.player)
  /\ rooms[lastOp.room].gamemaster \notin {Null, lastOp.player}
  /\ now > StartTime

\* C4: every playerId of the global player map is a member of exactly one
\* room's player map, the room named by its roomId, and every member of a
\* room's player map is the record registered under that id in the global map
OneRoomPerPlayer ==
  /\ \A i \in 1..Len(players) :
       {r \in DOMAIN rooms : MapHas(Members(r), players[i].id)}
         = {players[i].roomId}
  /\ \A r \in DOMAIN rooms : \A k \in 1..Len(Members(r)) :
       /\ Registered(players, Members(r)[k].id)
       /\ RoomOf(players, Members(r)[k].id) = r

-----------------------------------------------------------------------------
(* Properties of the game *)

\* the paddle fields an update_paddle writes
PaddleFields(room) ==
  [sd \in PlayingSides |->
     LET pad == room.gameState.paddles[sd]
     IN << pad.x, pad.y, pad.velocity, pad.target >>]

\* C3: an update_paddle whose sequence number is not strictly greater than
\* the sequence number of the last update applied for that player is dropped:
\* the paddle position, velocity and target are unchanged and no
\* paddle_updated is broadcast
StaleSequenceDropped ==
  [][(lastOp'.op = "update_paddle" /\ lastOp'.seq # Undefined
        /\ Registered(players, lastOp'.player))
       => LET r == RoomOf(players, lastOp'.player)
              last == PlayerRec(rooms, players, lastOp'.player)
                        .lastPaddleSequence
          IN (last # Undefined /\ lastOp'.seq <= last)
               => /\ PaddleFields(rooms'[r]) = PaddleFields(rooms[r])
                  /\ sent' = << >>]_vars

Game(r) == rooms[r].gameState

TouchedBy == PlayingSides \cup {Null}

\* the side geometrically opposite S
Facing(S) ==
  CASE S = "left" -> "right" [] S = "right" -> "left"
    [] S = "top" -> "bottom" [] S = "bottom" -> "top"

\* the side to credit for a crossing of S: the last toucher when set and not
\* S, the previous toucher on a self-goal when set, the side facing S otherwise
CreditedSide(last, prev, S) ==
  IF last # Null /\ last # S THEN last
  ELSE IF last = S /\ prev # Null THEN prev
  ELSE Facing(S)

\* C5: a boundary crossing on side S processed for scoring increments by
\* exactly one the score of exactly one side, the credited side, and leaves
\* the other three scores unchanged, whoever touched the ball last and before
BoundaryScoringCredits ==
  \A r \in DOMAIN rooms : \A S \in PlayingSides, last, prev \in TouchedBy :
    LET gs == [Game(r) EXCEPT !.ball.lastTouchedBy = last,
                              !.ball.previousTouchedBy = prev]
        after == handleScoring(gs, S, now, 1, 1)
    IN \A sd \in PlayingSides :
         after.score[sd] = gs.score[sd]
                             + (IF sd = CreditedSide(last, prev, S) THEN 1
                                ELSE 0)

\* a tick has processed a crossing of the left boundary by a ball last
\* touched by left after top, and top has the point
OwnGoalCreditsPrevious ==
  /\ lastOp.op = "tick"
  /\ lastOp.log.boundary = "left"
  /\ lastOp.log.credited = "top"
  /\ Game(MainRoom).score = [left |-> 0, right |-> 0, top |-> 1, bottom |-> 0]

\* what a tick must leave alone once the game has ended
Frozen(gs) ==
  << gs.ball, gs.paddles, gs.score, gs.pickups, gs.activeEffects >>

\* C6: a tick whose boundary scoring brings the credited side to the win
\* threshold leaves winner = that side, gameEnded = true, isPlaying = false;
\* a tick of a room whose game has ended leaves the ball, the paddles, the
\* score, the pickups and the active effects unchanged, and the game ended
WinEndsAndFreezes ==
  [][lastOp'.op = "tick" =>
       \A r \in DOMAIN rooms :
         /\ (r = MainRoom /\ lastOp'.log.credited # Null
               /\ Game(r)'.score[lastOp'.log.credited] >= WIN_SCORE)
              => /\ Game(r)'.winner = lastOp'.log.credited
                 /\ Game(r)'.gameEnded
                 /\ ~Game(r)'.isPlaying
         /\ Game(r).gameEnded
              => /\ Frozen(Game(r)') = Frozen(Game(r))
                 /\ Game(r)'.gameEnded]_vars

\* left has won by reaching the threshold and a later tick has run
TickAfterWin ==
  /\ lastOp.op = "tick"
  /\ lastOp.log.boundary = Null
  /\ rooms[MainRoom].isActive
  /\ Game(MainRoom).gameEnded
  /\ Game(MainRoom).winner = "left"
  /\ Game(MainRoom).score.left = WIN_SCORE
  /\ rooms[MainRoom].lastUpdate = now

\* C7: in every room whose game has not ended each of the four scores is
\* below the win threshold
BelowThresholdUntilEnded ==
  \A r \in DOMAIN rooms :
    ~Game(r).gameEnded
      => \A sd \in PlayingSides : Game(r).score[sd] < WIN_SCORE

\* the game of room r has ended by a win
Ended(r) ==
  /\ Game(r).gameEnded
  /\ ~Game(r).isPlaying
  /\ Game(r).winner # Null

\* the game of room r stays as it ended
StaysEnded(r) ==
  /\ Game(r)'.gameEnded
  /\ ~Game(r)'.isPlaying
  /\ Game(r)'.winner = Game(r).winner

\* C8 as stated: an ended game stays ended, with its winner, through every
\* tick, paddle update, ping, join_room, disconnect and idle sweep
EndedUntilReset ==
  [][\A r \in DOMAIN rooms :
       (Ended(r) /\ r \in DOMAIN rooms'
          /\ lastOp'.op \in {"tick", "update_paddle", "ping", "join_room",
                             "close", "idle_sweep"})
         => StaysEnded(r)]_vars

\* C8: an ended game stays ended, with its winner, through every tick, paddle
\* update, ping, disconnect and idle sweep; a join_room for its room starts a
\* fresh game: not ended, playing, without a winner
EndedUntilResetOrJoin ==
  [][\A r \in DOMAIN rooms :
       (Ended(r) /\ r \in DOMAIN rooms')
         => /\ lastOp'.op \in {"tick", "update_paddle", "ping", "close",
                               "idle_sweep"}
                 => StaysEnded(r)
            /\ (lastOp'.op = "join_room" /\ lastOp'.room = r)
                 => /\ ~Game(r)'.gameEnded
                    /\ Game(r)'.isPlaying
                    /\ Game(r)'.winner = Null]_vars

\* the game of the main room has ended by a win and a member's paddle update
\* has been applied since
PaddleUpdateAfterEnd ==
  /\ Ended(MainRoom)
  /\ lastOp.op = "update_paddle"
  /\ \E k \in 1..Len(Members(MainRoom)) :
       /\ Members(MainRoom)[k].id = lastOp.player
       /\ Members(MainRoom)[k].lastPaddleSequence = lastOp.seq

\* the pickup types that save an originalValue
SavedTypes ==
  {"big_ball", "small_ball", "grow_paddle", "shrink_paddle", "rubber_ball",
   "balloon_ball", "banana_peel"}

\* the field such a type saves; side is the paddle chosen
SavedField(gs, type, side) ==
  CASE type \in {"big_ball", "small_ball"} -> gs.ball.size
    [] type \in {"grow_paddle", "shrink_paddle"} -> gs.paddles[side].height
    [] OTHER -> gs.ball.bounciness

\* a pickup of the given type
PickupOf(type) ==
  [type |-> type, x |-> P(370), y |-> P(270), size |-> P(PICKUP_SIZE)]

\* C9: for every type that saves an originalValue, applying the effect to
\* the state of a room and letting it expire restores the saved field to
\* exactly its value before the apply
SavedValueRestored ==
  \A r \in DOMAIN rooms : \A type \in SavedTypes, side \in {"left", "right"} :
    \A rnd \in TickRnd :
      LET coin == [rnd EXCEPT !.side = side]
          applied == applyPickupEffect(Game(r), PickupOf(type), now, coin)
          expired == updateActiveEffects(applied,
                                         now + EffectDuration(type) + 1)
      IN /\ SavedField(expired, type, side) = SavedField(Game(r), type, side)
         /\ \A i \in 1..Len(expired.activeEffects) :
              expired.activeEffects[i] \in
                {Game(r).activeEffects[j] : j \in 1..Len(Game(r).activeEffects)}

\* a tick has let the big_ball effect expire and the ball has its size back
BigBallExpired ==
  /\ lastOp.op = "tick"
  /\ "big_ball" \in lastOp.log.expired
  /\ Game(MainRoom).activeEffects = << >>
  /\ Game(MainRoom).ball.size = P(12)

\* C10: for every pickup type whose apply step changes the GameState beyond
\* appending the ActiveEffect, the expiry step has a reversal that changes
\* the state back
EveryMutationReversed ==
  \A r \in DOMAIN rooms : \A type \in AllPickupTypes, rnd \in TickRnd :
    LET applied == applyPickupEffect(Game(r), PickupOf(type), now, rnd)
        effect == applied.activeEffects[Len(applied.activeEffects)]
        appended == [Game(r) EXCEPT !.activeEffects = Append(@, effect)]
    IN applied # appended => reversePickupEffect(applied, effect) # applied

-----------------------------------------------------------------------------
(* Properties of the room lifecycle and of the roles in a room *)

\* C11: a join_room naming a room id that is not in the registry creates the
\* room with a fresh GameState (all scores 0, no pickups, no active effects)
\* and registers the joiner in it; when the last member of a room other than
\* main disconnects (close or idle sweep), the room is removed from the
\* registry in the same step
RoomCreatedAndDeleted ==
  [][/\ (lastOp'.op = "join_room" /\ lastOp'.room \notin DOMAIN rooms)
          => /\ lastOp'.room \in DOMAIN rooms'
             /\ LET room == rooms'[lastOp'.room]
                IN /\ \A sd \in PlayingSides : room.gameState.score[sd] = 0
                   /\ room.gameState.pickups = << >>
                   /\ room.gameState.activeEffects = << >>
                   /\ MapHas(room.players, lastOp'.player)
                   /\ Registered(players', lastOp'.player)
                   /\ RoomOf(players', lastOp'.player) = lastOp'.room
     /\ lastOp'.op \in {"close", "idle_sweep"}
          => \A r \in DOMAIN rooms \ {MainRoom} :
               (Len(rooms[r].players) > 0 /\ r \in DOMAIN rooms')
                 => Len(rooms'[r].players) > 0]_vars

\* the connection of the only member of room R1 has just closed and R1 is
\* gone from the registry
EmptiedRoomDeleted ==
  /\ lastOp.op = "close"
  /\ lastOp.room = "R1"
  /\ "R1" \notin DOMAIN rooms
  /\ ~Registered(players, lastOp.player)

\* C12: the room main is in the room registry in every reachable state: no
\* join, disconnect, reset, tick or idle sweep removes it, with or without
\* players
MainAlwaysRegistered == MainRoom \in DOMAIN rooms

\* the idle sweep has just run on the main room, which has lost all its
\* players and has not been updated for longer than the idle timeout
MainEmptiedAndSwept ==
  /\ lastOp.op = "idle_sweep"
  /\ MainRoom \in DOMAIN rooms
  /\ Len(Members(MainRoom)) = 0
  /\ rooms[MainRoom].gamemaster # Null
  /\ now - rooms[MainRoom].lastUpdate > IDLE_TIMEOUT

\* C13: when the last player of main disconnects (close or idle sweep), the
\* state right after the disconnect has the room still registered, its
\* active flag false and isPlaying false
LastLeaverDeactivatesMain ==
  [][(/\ lastOp'.op \in {"close", "idle_sweep"}
      /\ Len(rooms[MainRoom].players) > 0
      /\ (MainRoom \in DOMAIN rooms' => Len(rooms'[MainRoom].players) = 0))
       => /\ MainRoom \in DOMAIN rooms'
          /\ ~rooms'[MainRoom].isActive
          /\ ~rooms'[MainRoom].gameState.isPlaying]_vars

\* the order in which the sides are offered to a joiner
SideOrder == <<"right", "left", "top", "bottom">>

\* the places of SideOrder whose side no member of the list m holds
Vacant(m) ==
  {k \in 1..Len(SideOrder) : \A i \in 1..Len(m) : m[i].side # SideOrder[k]}

\* the first side of SideOrder that no member of m holds, spectator if none
FirstVacant(m) ==
  IF Vacant(m) = {} THEN "spectator"
  ELSE SideOrder[CHOOSE k \in Vacant(m) : \A j \in Vacant(m) : k <= j]

\* C14: without forceSpectator a joiner is granted the first side, in the
\* order right, left, top, bottom, that no current member of the room holds,
\* and spectator when all four are held; with forceSpectator the joiner is a
\* spectator whatever sides are vacant
SideGrantedInOrder ==
  [][lastOp'.op = "join_room" =>
       LET r == lastOp'.room
           m == IF r \in DOMAIN rooms THEN rooms[r].players ELSE << >>
           granted == MapGet(rooms'[r].players, lastOp'.player).side
       IN granted = IF lastOp'.flag THEN "spectator" ELSE FirstVacant(m)]_vars

\* a player who did not ask to watch has just joined a room whose four sides
\* are held by others, and is a spectator
FifthJoinerWatches ==
  /\ lastOp.op = "join_room"
  /\ ~lastOp.flag
  /\ MapGet(Members(lastOp.room), lastOp.player).side = "spectator"
  /\ \A sd \in PlayingSides :
       \E i \in 1..Len(Members(lastOp.room)) :
         /\ Members(lastOp.room)[i].side = sd
         /\ Members(lastOp.room)[i].id # lastOp.player

\* C15: a joiner who is assigned a non-spectator side in a room that has no
\* gamemaster becomes its gamemaster; a join into a room that has a
\* gamemaster does not change it
GamemasterElectedOnJoin ==
  [][lastOp'.op = "join_room" =>
       LET r == lastOp'.room
           before == IF r \in DOMAIN rooms THEN rooms[r].gamemaster ELSE Null
           granted == MapGet(rooms'[r].players, lastOp'.player).side
       IN /\ (before = Null /\ granted # "spectator")
               => rooms'[r].gamemaster = lastOp'.player
          /\ before # Null => rooms'[r].gamemaster = before]_vars

\* the second socket event was the join of a player who found only a
\* spectator in the room, was granted a side and is the gamemaster
ElectedAfterSpectator ==
  /\ lastOp.op = "join_room"
  /\ events = 2
  /\ Len(Members(lastOp.room)) = 2
  /\ Members(lastOp.room)[1].side = "spectator"
  /\ Members(lastOp.room)[2].id = lastOp.player
  /\ Members(lastOp.room)[2].side \in PlayingSides
  /\ rooms[lastOp.room].gamemaster = lastOp.player

\* C16: when the gamemaster of a room is removed (close or idle sweep) and a
\* member remains, room.gamemaster is afterwards a remaining member, who has
\* been sent gamemaster_assigned; when the gamemaster is not removed, the
\* gamemaster is unchanged
GamemasterHandedOver ==
  [][lastOp'.op \in {"close", "idle_sweep"} =>
       \A r \in DOMAIN rooms \cap DOMAIN rooms' :
         LET gm == rooms[r].gamemaster
             removed == /\ MapHas(rooms[r].players, gm)
                        /\ ~MapHas(rooms'[r].players, gm)
             heir == rooms'[r].gamemaster
         IN /\ (removed /\ Len(rooms'[r].players) > 0)
                 => /\ MapHas(rooms'[r].players, heir)
                    /\ \E k \in 1..Len(sent') :
                         /\ sent'[k].type = "gamemaster_assigned"
                         /\ sent'[k].who = heir
                         /\ sent'[k].to = MapGet(rooms'[r].players, heir).ws
            /\ ~removed => heir = gm]_vars

\* the connection of the gamemaster has just closed and a remaining member
\* of the room has the role and was told so
HandedOverOnClose ==
  /\ lastOp.op = "close"
  /\ lastOp.room \in DOMAIN rooms
  /\ ~MapHas(Members(lastOp.room), lastOp.player)
  /\ MapHas(Members(lastOp.room), rooms[lastOp.room].gamemaster)
  /\ \E k \in 1..Len(sent) :
       /\ sent[k].type = "gamemaster_assigned"
       /\ sent[k].who = rooms[lastOp.room].gamemaster

\* the sides of SideOrder offered before the side sd
Before(sd) ==
  {SideOrder[k] : k \in {j \in 1..Len(SideOrder) :
                           \E n \in (j + 1)..Len(SideOrder) :
                             SideOrder[n] = sd}}

\* C17: when a member holding a playing side S is removed and the room has a
\* spectator, the first spectator in the membership order, and no one else,
\* takes side S and is notified of it, and every other member keeps their
\* side; when the room has no spectator, side S becomes vacant and is
\* granted to the next joiner who finds the sides offered before S held
SpectatorPromoted ==
  \A i \in 1..Len(players) :
    LET p == players[i].id
        r == players[i].roomId
        S == MapGet(rooms[r].players, p).side
        rest == MapDelete(rooms[r].players, p)
        specs == {k \in 1..Len(rest) : rest[k].side = "spectator"}
        first == CHOOSE k \in specs : \A j \in specs : k <= j
        after == handlePlayerDisconnect(Srv, OpenSockets, p)
        m2 == IF r \in DOMAIN after.rooms THEN after.rooms[r].players
              ELSE << >>
    IN (r \in DOMAIN rooms /\ S \in PlayingSides)
         => /\ Len(m2) = Len(rest)
            /\ \A k \in 1..Len(rest) :
                 /\ m2[k].id = rest[k].id
                 /\ m2[k].side = IF specs # {} /\ k = first THEN S
                                 ELSE rest[k].side
            /\ specs # {}
                 => \E n \in 1..Len(after.sent) :
                      /\ after.sent[n].type = "joined_room"
                      /\ after.sent[n].to = rest[first].ws
                      /\ after.sent[n].side = S
            /\ specs = {}
                 => /\ \A k \in 1..Len(m2) : m2[k].side # S
                    /\ (\A sd \in Before(S) :
                          \E k \in 1..Len(m2) : m2[k].side = sd)
                         => ChooseSide(m2, FALSE) = S

\* a connection has just closed, its player is gone from the room, and a
\* member of the room was told that they now hold a playing side
SpectatorTookVacatedSide ==
  /\ lastOp.op = "close"
  /\ lastOp.room \in DOMAIN rooms
  /\ ~MapHas(Members(lastOp.room), lastOp.player)
  /\ \E k \in 1..Len(sent) :
       /\ sent[k].type = "joined_room"
       /\ sent[k].side \in PlayingSides
       /\ sent[k].who # lastOp.player
       /\ MapHas(Members(lastOp.room), sent[k].who)
       /\ MapGet(Members(lastOp.room), sent[k].who).side = sent[k].side

\* C18: in every reachable state, a registered room with zero members has
\* isPlaying = false
EmptyRoomIdle ==
  \A r \in DOMAIN rooms :
    Len(Members(r)) = 0 => ~rooms[r].gameState.isPlaying

\* C19: every join_room leaves the room active with all four scores 0,
\* winner null, gameEnded false, isPlaying true, isPaused false,
\* pauseEndTime 0, and the ball at the centre (400, 300) with each velocity
\* component equal to +3 or -3
JoinStartsFreshGame ==
  [][lastOp'.op = "join_room" =>
       LET room == rooms'[lastOp'.room]
           gs == room.gameState
       IN /\ room.isActive
          /\ \A sd \in PlayingSides : gs.score[sd] = 0
          /\ gs.winner = Null
          /\ ~gs.gameEnded
          /\ gs.isPlaying
          /\ ~gs.isPaused
          /\ gs.pauseEndTime = 0
          /\ gs.ball.x = P(400)
          /\ gs.ball.y = P(300)
          /\ gs.ball.dx \in {P(3), 0 - P(3)}
          /\ gs.ball.dy \in {P(3), 0 - P(3)}]_vars

\* a player who asked to watch has just joined a room whose game in progress
\* had a pickup on the field; the ball leaves the centre to the top left
SpectatorJoinedGameInProgress ==
  /\ lastOp.op = "join_room"
  /\ lastOp.flag
  /\ MapGet(Members(lastOp.room), lastOp.player).side = "spectator"
  /\ Len(Game(lastOp.room).pickups) > 0
  /\ Game(lastOp.room).ball.dx = 0 - P(3)
  /\ Game(lastOp.room).ball.dy = 0 - P(3)

\* C20: update_game_state_delta never changes the score: the four scores of
\* every room after the handler equal the scores before it, whether or not
\* the payload carries a score
DeltaKeepsScore ==
  [][lastOp'.op = "update_game_state_delta" =>
       \A r \in DOMAIN rooms :
         /\ r \in DOMAIN rooms'
         /\ rooms'[r].gameState.score = rooms[r].gameState.score]_vars

\* the gamemaster has just sent a delta that carries a score, the room was
\* updated by it, and the score of the room is not the score of the payload
ScoreDeltaAccepted ==
  /\ lastOp.op = "update_game_state_delta"
  /\ lastOp.flag
  /\ rooms[lastOp.room].gamemaster = lastOp.player
  /\ now > StartTime
  /\ rooms[lastOp.room].lastUpdate = now
  /\ Game(lastOp.room).score.left = WIN_SCORE - 1

-----------------------------------------------------------------------------
(* Properties of the game loop *)

\* the members of active rooms whose socket is the open connection c
OpenMembersOn(c) ==
  {<<r, i>> \in (DOMAIN rooms) \X (1..NumPlayers) :
     /\ rooms[r].isActive
     /\ i <= Len(rooms[r].players)
     /\ rooms[r].players[i].ws = c
     /\ conns[c].open}

\* C21: on every tick each active room sends exactly one server_game_update
\* to every member whose connection is open, whether or not anything changed
\* and also while the room is paused, ended or not playing; a room that is
\* not active is skipped: the tick leaves it as it was and sends nothing for it
TickBroadcastsOnce ==
  [][lastOp'.op = "tick" =>
       /\ \A k \in 1..Len(sent') : sent'[k].type = "server_game_update"
       /\ \A c \in Conns :
            Cardinality({k \in 1..Len(sent') : sent'[k].to = c})
              = Cardinality(OpenMembersOn(c))
       /\ \A r \in DOMAIN rooms :
            ~rooms[r].isActive => (r \in DOMAIN rooms' /\ rooms'[r] = rooms[r])
    ]_vars

\* a tick has just run on a game that had ended before it, simulated nothing,
\* and each of the two members was sent one snapshot
TickWhileEnded ==
  /\ lastOp.op = "tick"
  /\ lastOp.log = NoLog
  /\ Game(MainRoom).gameEnded
  /\ Len(Members(MainRoom)) = 2
  /\ Len(sent) = 2
  /\ \A c \in {1, 2} : \E k \in 1..Len(sent) :
       sent[k].to = c /\ sent[k].type = "server_game_update"

\* C22: whenever an active room is paused it becomes unpaused: a tick at or
\* after the pause-expiry timestamp of an active paused room clears isPaused
\* and resets pauseEndTime to 0, and a tick before that timestamp leaves the
\* room paused
PauseExpires ==
  [][lastOp'.op = "tick" =>
       \A r \in DOMAIN rooms :
         (rooms[r].isActive /\ rooms[r].gameState.isPaused)
           => IF now >= rooms[r].gameState.pauseEndTime
              THEN /\ ~rooms'[r].gameState.isPaused
                   /\ rooms'[r].gameState.pauseEndTime = 0
              ELSE rooms'[r].gameState.isPaused]_vars

\* C23: after a scoring event that does not reach the win threshold the room
\* is paused with pauseEndTime = time of scoring + 2000 ms, the ball is at
\* the centre (400, 300) with each velocity component +3 or -3, lastTouchedBy
\* and previousTouchedBy are null and the modifier flags of the ball are
\* cleared
GoalPausesAndResetsBall ==
  [][(lastOp'.op = "tick" /\ lastOp'.log.boundary # Null
        /\ ~Game(MainRoom)'.gameEnded)
       => LET gs == Game(MainRoom)'
          IN /\ gs.isPaused
             /\ gs.pauseEndTime = now + GOAL_PAUSE
             /\ gs.ball.x = P(400)
             /\ gs.ball.y = P(300)
             /\ gs.ball.dx \in {P(3), 0 - P(3)}
             /\ gs.ball.dy \in {P(3), 0 - P(3)}
             /\ gs.ball.lastTouchedBy = Null
             /\ gs.ball.previousTouchedBy = Null
             /\ ~gs.ball.hasGravity
             /\ ~gs.ball.isAiming
             /\ gs.ball.flags = {}]_vars

-----------------------------------------------------------------------------
(* Properties of the ball physics.  The tick about to run on room r reads   *)
(* the clock at `now` and draws TheTickRnd                                  *)

TheTickRnd == CHOOSE rnd \in TickRnd : TRUE

\* will the tick about to run simulate room r
WillSimulate(r) == rooms[r].isActive /\ Simulating(unpause(Game(r), now))

\* the game state of room r in which the collision loop of that tick runs
AtCollision(r) ==
  ballForces(paddleStep(unpause(Game(r), now), P(CANVAS), P(CANVAS),
                        TheTickRnd.offset), now)

\* the ball and the paddle rectangles the collision loop tests in the game
\* state g
LoopBall(g) ==
  [x |-> g.ball.x, y |-> g.ball.y, size |-> g.ball.size,
   vx |-> g.ball.dx, vy |-> g.ball.dy]

LoopPaddles(g) == collisionPaddles(g.paddles, P(CANVAS), P(CANVAS))

\* has the collision cooldown of the ball of g elapsed at that tick
CooldownOver(g) == now - g.ball.lastCollisionTime > 50

\* index in LoopPaddles(g) of the paddle whose collision the tick on room r
\* confirms and responds to, given the state g = AtCollision(r); 0 when it
\* confirms none
HitIndex(r, g) ==
  IF WillSimulate(r) /\ CooldownOver(g)
  THEN firstPaddleHit(LoopBall(g), LoopPaddles(g))
  ELSE 0

\* the side of the paddle that tick responds to, null when there is none
HitSide(r, g) ==
  IF HitIndex(r, g) > 0 THEN LoopPaddles(g)[HitIndex(r, g)].side ELSE Null

\* the messages by which a gamemaster writes the game state
StateMessages == {"update_game_state", "update_game_state_delta", "reset_room"}

\* C24 as stated, for the steps other than the state messages of a
\* gamemaster: ball.lastTouchedBy changes only in a tick that applies a
\* confirmed ball-paddle collision, where it becomes the side of that paddle;
\* a tick that processes a wall-boundary crossing, and every other step,
\* leaves it unchanged
TouchOnlyByPaddleHit ==
  [][\A r \in DOMAIN rooms \cap DOMAIN rooms' :
       (lastOp'.op \notin StateMessages
          /\ Game(r)'.ball.lastTouchedBy # Game(r).ball.lastTouchedBy)
         => /\ lastOp'.op = "tick"
            /\ HitSide(r, AtCollision(r)) # Null
            /\ Game(r)'.ball.lastTouchedBy = HitSide(r, AtCollision(r))]_vars

\* C24: a tick that applies a confirmed ball-paddle collision sets
\* ball.lastTouchedBy to the side of that paddle; any other tick leaves it
\* unchanged, except that the tick that processes a wall-boundary crossing
\* for scoring clears it to null; a state message changes it only when it
\* comes from the gamemaster of the room; every other step leaves it unchanged
TouchSetByHitClearedByGoal ==
  [][\A r \in DOMAIN rooms \cap DOMAIN rooms' :
       LET a == Game(r).ball.lastTouchedBy
           b == Game(r)'.ball.lastTouchedBy
           hit == HitSide(r, AtCollision(r))
       IN CASE lastOp'.op = "tick" ->
                 IF hit # Null THEN b = hit
                 ELSE \/ b = a
                      \/ b = Null /\ lastOp'.log.boundary # Null
            [] lastOp'.op \in StateMessages ->
                 b # a => /\ lastOp'.room = r
                          /\ Authorized(rooms, r, lastOp'.player)
            [] OTHER -> b = a]_vars

\* a tick has just applied a collision with the left paddle: the ball was
\* sent back to the right and is last touched by left
LeftPaddleTookTouch ==
  /\ lastOp.op = "tick"
  /\ Game(MainRoom).ball.lastTouchedBy = "left"
  /\ Game(MainRoom).ball.lastCollisionTime = now
  /\ Game(MainRoom).ball.dx > 0
  /\ Game(MainRoom).rumbleEffect.isActive
  /\ Game(MainRoom).rumbleEffect.startTime = now

-----------------------------------------------------------------------------
(* Properties of the idle sweep *)

\* the registered players whose lastSeen is more than the timeout before now
IdlePlayers ==
  {players[i].id : i \in {j \in 1..Len(players) :
     now - PlayerRec(rooms, players, players[j].id).lastSeen > IDLE_TIMEOUT}}

\* C25: after an idle sweep no player whose lastSeen is more than 30 s before
\* the time of the sweep remains registered, and a player whose lastSeen is
\* within the timeout is not removed; an idle player is removed with the
\* effects of a connection close: the sweep of one idle player leaves the
\* registry, the members, sides and gamemaster of every room and the messages
\* sent as handlePlayerDisconnect leaves them
SweepRemovesIdlePlayers ==
  [][lastOp'.op = "idle_sweep" =>
       /\ \A i \in 1..Len(players) :
            Registered(players', players[i].id)
              <=> players[i].id \notin IdlePlayers
       /\ \A i \in 1..Len(players') : Registered(players, players'[i].id)
       /\ \A p \in IdlePlayers :
            IdlePlayers = {p} =>
              LET closed == handlePlayerDisconnect(Srv, OpenSockets, p)
              IN /\ players' = closed.players
                 /\ sent' = closed.sent
                 /\ DOMAIN rooms' \subseteq DOMAIN closed.rooms
                 /\ \A r \in DOMAIN rooms' :
                      /\ rooms'[r].players = closed.rooms[r].players
                      /\ rooms'[r].gamemaster = closed.rooms[r].gamemaster
    ]_vars

\* the sweep has just removed an idle player and told the member it left in
\* the room, who was seen since the clock advanced
IdleRemovedActiveKept ==
  /\ lastOp.op = "idle_sweep"
  /\ Len(players) = 1
  /\ PlayerRec(rooms, players, players[1].id).lastSeen = now
  /\ now > StartTime
  /\ \E k \in 1..Len(sent) :
       /\ sent[k].type = "player_left"
       /\ ~Registered(players, sent[k].who)
       /\ sent[k].to = PlayerRec(rooms, players, players[1].id).ws

-----------------------------------------------------------------------------
(* Properties of the collision detection *)

\* do the spans [a, a + m] and [b, b + n] overlap
Overlap(a, m, b, n) == a < b + n /\ b < a + m

\* does the ball that was at (x0, y0) and is at (x1, y1), of size s, lie
\* entirely on one side of the paddle rectangle R before, entirely on the
\* other side after, and level with the paddle both times
Crossed(R, s, x0, y0, x1, y1) ==
  IF R.side \in {"left", "right"}
  THEN /\ Overlap(y0, s, R.y, R.height)
       /\ Overlap(y1, s, R.y, R.height)
       /\ \/ x0 >= R.x + R.width /\ x1 + s <= R.x
          \/ x0 + s <= R.x /\ x1 >= R.x + R.width
  ELSE /\ Overlap(x0, s, R.x, R.width)
       /\ Overlap(x1, s, R.x, R.width)
       /\ \/ y0 >= R.y + R.height /\ y1 + s <= R.y
          \/ y0 + s <= R.y /\ y1 >= R.y + R.height

\* C26: no tunnelling: whatever the size and the velocity of the ball, no
\* tick moves the ball from lying entirely on one side of a paddle to lying
\* entirely on the other side of it, across the rectangle of the paddle,
\* without detecting a collision with that paddle in that tick
NoTunnelling ==
  [][lastOp'.op = "tick" =>
       \A r \in DOMAIN rooms \cap DOMAIN rooms' :
         LET g == AtCollision(r)
             paddles == LoopPaddles(g)
             s == Game(r)'.ball.size
         IN \A i \in 1..Len(paddles) :
              (WillSimulate(r) /\ s = g.ball.size
                 /\ Crossed(paddles[i], s, g.ball.x, g.ball.y,
                            Game(r)'.ball.x, Game(r)'.ball.y))
                => HitIndex(r, g) = i]_vars

\* the bounding box of the ball of g, one velocity step ahead when ahead
BallBox(g, ahead) ==
  [x |-> g.ball.x + (IF ahead THEN g.ball.dx ELSE 0),
   y |-> g.ball.y + (IF ahead THEN g.ball.dy ELSE 0),
   width |-> g.ball.size, height |-> g.ball.size]

\* does the moving ball of g miss the paddle rectangle R at its current
\* position and overlap it one velocity step ahead
HitAhead(g, R) ==
  /\ g.ball.dx # 0 \/ g.ball.dy # 0
  /\ ~detectAABB(BallBox(g, FALSE), R, 0).hit
  /\ detectAABB(BallBox(g, TRUE), R, 0).hit

\* is the ball of game state gs moving away from the paddle on side sd
Reflected(gs, sd) ==
  CASE sd = "left" -> gs.ball.dx > 0
    [] sd = "right" -> gs.ball.dx < 0
    [] sd = "top" -> gs.ball.dy > 0
    [] sd = "bottom" -> gs.ball.dy < 0

\* C27 as stated: in a tick that simulates the room, a moving ball whose
\* current bounding box does not overlap a paddle but whose next-position
\* bounding box does, gets the response of a collision with that paddle:
\* lastTouchedBy becomes the side of that paddle and the velocity is reflected
AheadHitAlwaysApplied ==
  [][lastOp'.op = "tick" =>
       \A r \in DOMAIN rooms \cap DOMAIN rooms' :
         WillSimulate(r) =>
           LET g == AtCollision(r)
               paddles == LoopPaddles(g)
           IN \A i \in 1..Len(paddles) :
                HitAhead(g, paddles[i])
                  => /\ Game(r)'.ball.lastTouchedBy = paddles[i].side
                     /\ Reflected(Game(r)', paddles[i].side)]_vars

\* C27: in a tick that simulates the room more than 50 ms after the last
\* collision of the ball, a moving ball whose current bounding box does not
\* overlap a paddle but whose next-position bounding box does, and that hits
\* no paddle earlier in the order left, right, top, bottom, registers a hit
\* on that paddle in that tick and gets the collision response: lastTouchedBy
\* becomes the side of that paddle and the velocity is reflected
AheadHitAppliedAfterCooldown ==
  [][lastOp'.op = "tick" =>
       \A r \in DOMAIN rooms \cap DOMAIN rooms' :
         (WillSimulate(r) /\ CooldownOver(AtCollision(r))) =>
           LET g == AtCollision(r)
               paddles == LoopPaddles(g)
           IN \A i \in 1..Len(paddles) :
                (/\ HitAhead(g, paddles[i])
                 /\ \A j \in 1..(i - 1) :
                      ~detectBallPaddle(LoopBall(g), paddles[j]).hit)
                  => /\ HitIndex(r, g) = i
                     /\ Game(r)'.ball.lastTouchedBy = paddles[i].side
                     /\ Game(r)'.ball.lastCollisionTime = now
                     /\ Reflected(Game(r)', paddles[i].side)]_vars

\* a tick has just answered a collision the ball had not reached yet: the
\* ball was put flush against the face of the left paddle and moved on from
\* there with its new velocity
AheadHitOnLeftPaddle ==
  /\ lastOp.op = "tick"
  /\ Game(MainRoom).ball.lastTouchedBy = "left"
  /\ Game(MainRoom).ball.lastCollisionTime = now
  /\ Game(MainRoom).ball.dx > 0
  /\ Game(MainRoom).ball.x =
       LoopPaddles(Game(MainRoom))[1].x + LoopPaddles(Game(MainRoom))[1].width
         + P(1) + Game(MainRoom).ball.dx
  /\ Game(MainRoom).colorIndex = 1

\* C28: at the end of every tick that simulates a room, both velocity
\* components of the ball of that room are at most 20 in magnitude, whatever
\* pickups were collected and whatever force fields acted during that tick
VelocityClampedAfterTick ==
  [][lastOp'.op = "tick" =>
       \A r \in DOMAIN rooms \cap DOMAIN rooms' :
         WillSimulate(r) => /\ Abs(Game(r)'.ball.dx) <= P(20)
                            /\ Abs(Game(r)'.ball.dy) <= P(20)]_vars

-----------------------------------------------------------------------------
(* Properties of the pickups *)

\* C29: in every reachable state the list of live pickups of every room has
\* at most two entries
AtMostTwoPickups == \A r \in DOMAIN rooms : Len(Game(r).pickups) <= 2

\* C29 for the server's own steps: a tick adds a pickup to a room only when
\* the spawn time of the room has come and fewer than two pickups are live,
\* and then adds exactly one, so that it never makes the list longer than
\* two; a state message changes the list only when it comes from the
\* gamemaster of the room; every other step leaves the list no longer than
\* it was, or empty
SpawnsAtMostTwoPickups ==
  [][\A r \in DOMAIN rooms \cap DOMAIN rooms' :
       LET a == Len(Game(r).pickups)
           b == Len(Game(r)'.pickups)
       IN CASE lastOp'.op = "tick" ->
                 b > a => /\ a < 2
                          /\ b = a + 1
                          /\ WillSimulate(r)
                          /\ now >= Game(r).nextPickupTime
                          /\ Game(r)'.nextPickupTime >= now + 10000
            [] lastOp'.op \in StateMessages ->
                 Game(r)'.pickups # Game(r).pickups
                   => /\ lastOp'.room = r
                      /\ Authorized(rooms, r, lastOp'.player)
            [] OTHER -> b <= a]_vars

\* a tick has just spawned the second pickup of the main room
SecondPickupSpawned ==
  /\ lastOp.op = "tick"
  /\ Len(Game(MainRoom).pickups) = 2
  /\ Game(MainRoom).pickups[2] = generatePickup(P(CANVAS), P(CANVAS), TheTickRnd)
  /\ Game(MainRoom).nextPickupTime >= now + 10000

-----------------------------------------------------------------------------
(* Properties of the unknown references *)

\* does the step just taken handle a message or a close that names a player
\* or a room that was not registered
UnknownReference ==
  \/ /\ lastOp'.op \in {"update_paddle", "close"}
     /\ ~Registered(players, lastOp'.player)
  \/ /\ lastOp'.op \in StateMessages
     /\ lastOp'.room \notin DOMAIN rooms

\* C30: an update_paddle or a disconnect for a playerId that is not
\* registered, and an update_game_state, update_game_state_delta or
\* reset_room for a roomId that is not registered, leave every room and every
\* player record unchanged and send no message, error message included
UnknownReferencesIgnored ==
  [][UnknownReference
       => /\ rooms' = rooms
          /\ players' = players
          /\ sent' = << >>]_vars

\* the gamemaster of the main room has just sent reset_room for a room that
\* is not registered, and nothing was sent
ResetOfUnknownRoomDropped ==
  /\ lastOp.op = "reset_room"
  /\ lastOp.room \notin DOMAIN rooms
  /\ rooms[MainRoom].gamemaster = lastOp.player
  /\ Registered(players, lastOp.player)
  /\ sent = << >>

\* a connection that named a player who is not registered has just closed,
\* while another player is registered, and nothing was sent
CloseOfUnknownPlayerDropped ==
  /\ lastOp.op = "close"
  /\ lastOp.player # Null
  /\ ~Registered(players, lastOp.player)
  /\ players # << >>
  /\ sent = << >>

-----------------------------------------------------------------------------
(* Properties of the error answers *)

\* the positions of the error records among the messages just sent
ErrorsIn(msgs) == {i \in 1..Len(msgs) : msgs[i].type = "error"}

\* C31: whenever the server answers an inbound payload with the error
\* record, that record is sent on the connection of the payload only, and no
\* room, game state or player record differs from its value before the
\* payload arrived
ErrorAnswerChangesNothing ==
  [][ErrorsIn(sent') # {}
       => /\ \A i \in ErrorsIn(sent') : sent'[i].to = lastOp'.conn
          /\ rooms' = rooms
          /\ players' = players]_vars

-----------------------------------------------------------------------------
(* Properties of the paddle movement.  The tick about to run on room r      *)
(* moves the paddles of unpause(Game(r), now) by updatePaddleAI              *)

\* the paddles of room r after the paddle movement of that tick, before the
\* corner resolutions
AfterAI(r) ==
  [sd \in PlayingSides |->
     updatePaddleAI(sd, Game(r).paddles[sd], Game(r).ball, P(CANVAS),
                    P(CANVAS), TheTickRnd.offset)]

\* how far paddle p is from the position of paddle old
Displaced(p, old) == Abs(p.x - old.x) + Abs(p.y - old.y)

\* the pairs of paddles that meet in a corner
Corners == {"left", "right"} \X {"top", "bottom"}

\* C32: when two corner paddles overlap after the paddle movement of a
\* tick, the paddle that was displaced more in this tick is back at its
\* pre-tick position after the tick; if both were displaced equally, both are
\* back at their pre-tick positions
MoreDisplacedRevertedEqualBoth ==
  [][lastOp'.op = "tick" =>
       \A r \in DOMAIN rooms \cap DOMAIN rooms' :
         WillSimulate(r) =>
           LET old == Game(r).paddles
               ai == AfterAI(r)
               new == Game(r)'.paddles
           IN \A c \in Corners :
                checkPaddleCollision(ai[c[1]], ai[c[2]])
                  => LET m1 == Displaced(ai[c[1]], old[c[1]])
                         m2 == Displaced(ai[c[2]], old[c[2]])
                     IN /\ m1 >= m2 => Displaced(new[c[1]], old[c[1]]) = 0
                        /\ m2 >= m1 => Displaced(new[c[2]], old[c[2]]) = 0]_vars

-----------------------------------------------------------------------------
(* Properties of the aim state *)

\* C33: a tick that ends the aim state of the ball launches the ball: the
\* ball is never left out of the aim state with zero velocity
AimEndsWithLaunch ==
  [][lastOp'.op = "tick" =>
       \A r \in DOMAIN rooms \cap DOMAIN rooms' :
         (Game(r).ball.isAiming /\ ~Game(r)'.ball.isAiming)
           => Game(r)'.ball.dx # 0 \/ Game(r)'.ball.dy # 0]_vars

-----------------------------------------------------------------------------
(* Properties of the overlapping effects *)

\* the positions in the list effects of the effects that save the ball size
SizeEffects(effects) ==
  {i \in 1..Len(effects) : effects[i].type \in {"big_ball", "small_ball"}}

\* C34: once no effect on the ball size is active any more, the ball size
\* equals its value from before the first of the effects on it was applied,
\* whatever the order in which they were collected and expired: a tick that
\* lets the last of them expire leaves the size that the oldest of them saved
SizeRestoredAfterOverlap ==
  [][lastOp'.op = "tick" =>
       \A r \in DOMAIN rooms \cap DOMAIN rooms' :
         LET before == Game(r).activeEffects
             first == CHOOSE i \in SizeEffects(before) :
                        \A j \in SizeEffects(before) : i <= j
         IN (SizeEffects(before) # {}
               /\ SizeEffects(Game(r)'.activeEffects) = {})
              => Game(r)'.ball.size = before[first].originalValue]_vars

-----------------------------------------------------------------------------
(* Properties of the gamemaster role *)

\* does room r have a member on a playing side
HasSidePlayer(r) ==
  \E i \in 1..Len(rooms[r].players) : rooms[r].players[i].side \in PlayingSides

\* C35: in every reachable state in which a room has at least one member on
\* a playing side, room.gamemaster is the id of a current member of that
\* room, the main room after it was left empty and joined again included
GamemasterIsMember ==
  \A r \in DOMAIN rooms :
    HasSidePlayer(r) => MapHas(rooms[r].players, rooms[r].gamemaster)

\* C36: an update_game_state, update_game_state_delta or reset_room message
\* changes the game state of a room only if its playerId is, at that moment,
\* a registered player and a member of that room
AuthorityEndsWithMembership ==
  [][lastOp'.op \in StateMessages =>
       \A r \in DOMAIN rooms \cap DOMAIN rooms' :
         Game(r)' # Game(r)
           => /\ Registered(players, lastOp'.player)
              /\ MapHas(rooms[r].players, lastOp'.player)]_vars

-----------------------------------------------------------------------------
(* Properties of the sessions *)

\* is player p registered through a connection other than c
LiveElsewhere(p, c) ==
  /\ Registered(players, p)
  /\ RoomOf(players, p) \in DOMAIN rooms
  /\ MapHas(rooms[RoomOf(players, p)].players, p)
  /\ MapGet(rooms[RoomOf(players, p)].players, p).ws # c

\* C37: when a connection closes whose playerId has since joined through
\* another connection, the player registered through that other connection
\* stays in the global player map and in its room, keeps its side and the
\* gamemaster role, and no player_left is broadcast for it
StaleCloseKeepsSession ==
  [][(lastOp'.op = "close" /\ LiveElsewhere(lastOp'.player, lastOp'.conn))
       => /\ players' = players
          /\ rooms' = rooms
          /\ \A k \in 1..Len(sent') : sent'[k].type # "player_left"]_vars

\* every connection that ever named a player has closed, and every member
\* and every room has been silent for longer than the idle timeout
AllSilent ==
  /\ \A c \in OpenSockets : conns[c].playerId = Null
  /\ \A r \in DOMAIN rooms :
       /\ now - rooms[r].lastUpdate > IDLE_TIMEOUT
       /\ \A i \in 1..Len(rooms[r].players) :
            now - rooms[r].players[i].lastSeen > IDLE_TIMEOUT

\* C38: once every connection that joined has closed and the idle timeout
\* has passed, the cleanup timer leaves no room other than main in the
\* registry, and no room with a member that is absent from the global player
\* map
SweepLeavesNoRoomOrMember ==
  [][(lastOp'.op = "idle_sweep" /\ AllSilent)
       => /\ DOMAIN rooms' = {MainRoom}
          /\ \A r \in DOMAIN rooms' :
               \A i \in 1..Len(rooms'[r].players) :
                 /\ Registered(players', rooms'[r].players[i].id)
                 /\ RoomOf(players', rooms'[r].players[i].id) = r]_vars

-----------------------------------------------------------------------------
(* Properties of the touch tracking *)

\* C39: when a tick applies the collision of the paddle of side S with a
\* ball whose lastTouchedBy is T, T different from S, the ball afterwards has
\* lastTouchedBy = S and previousTouchedBy = T
PreviousToucherTracked ==
  [][lastOp'.op = "tick" =>
       \A r \in DOMAIN rooms \cap DOMAIN rooms' :
         LET S == HitSide(r, AtCollision(r))
             T == Game(r).ball.lastTouchedBy
         IN (S # Null /\ T # Null /\ T # S)
              => /\ Game(r)'.ball.lastTouchedBy = S
                 /\ Game(r)'.ball.previousTouchedBy = T]_vars

-----------------------------------------------------------------------------
(* Properties of the role notifications *)

\* is the player m.who, reached through socket m.to, the gamemaster of a
\* room it is a member of, in the registry rms
IsGamemasterIn(rms, m) ==
  \E r \in DOMAIN rms :
    /\ MapHas(rms[r].players, m.who)
    /\ MapGet(rms[r].players, m.who).ws = m.to
    /\ rms[r].gamemaster = m.who

\* C40: in every joined_room message that the handler of a join or of a
\* close sends, the isGameMaster flag tells whether the recipient is the
\* gamemaster of its room when the message is sent, the message to a
\* spectator promoted in the step that made it gamemaster included
JoinedRoomTellsRole ==
  [][lastOp'.op \in {"join_room", "close"} =>
       \A k \in 1..Len(sent') :
         sent'[k].type = "joined_room"
           => (sent'[k].gm <=> IsGamemasterIn(rooms', sent'[k]))]_vars

====
